---- MODULE Spec2Model ----
(***************************************************************************)
(* Model of filehasher: the hashing pool (internal/hasher), the scan       *)
(* pipeline and reconciler (cmd/main.go scanCmd), the catalog store        *)
(* (internal/db) and the verifier (internal/verifier, cmd/main.go          *)
(* verifyCmd).                                                             *)
(***************************************************************************)
EXTENDS Integers, Sequences, FiniteSets, TLC

(***************************************************************************)
(* Bounds of the model.                                                    *)
(***************************************************************************)
MaxWorkers == 2      \* largest worker count given to hasher.New in SpecHash
MaxLen == 3          \* longest descriptor sequence sent to a pool in SpecHash

(***************************************************************************)
(* Paths are character sequences, as the catalog's LIKE query sees them.   *)
(***************************************************************************)
PA == <<"/", "a", "/", "f">>
PB == <<"/", "b", "/", "f">>
PC == <<"/", "b", "/", "d", "/", "f">>
PG == <<"/", "b", "/", "g">>

\* every path of the model, in the lexical order filepath.WalkDir visits them
WalkOrder == <<PA, PC, PB, PG>>

Paths == {WalkOrder[i] : i \in 1..Len(WalkOrder)}

SetMax(S) == CHOOSE x \in S : \A y \in S : y <= x

\* filepath.Base: the component after the last separator
Base(path) ==
  LET slashes == {i \in 1..Len(path) : path[i] = "/"}
  IN  IF slashes = {} THEN path ELSE SubSeq(path, SetMax(slashes) + 1, Len(path))

HasPrefix(path, root) ==
  /\ Len(path) > Len(root)
  /\ SubSeq(path, 1, Len(root)) = root
  /\ path[Len(root) + 1] = "/"

(***************************************************************************)
(* File contents and digests.  Contents 1 and 2 have the same size and     *)
(* different digests; content 3 has another size.                          *)
(***************************************************************************)
Contents == {1, 2, 3}

SizeOf(c) == CASE c = 0 -> 0 [] c = 3 -> 2 [] OTHER -> 1

\* sha256 + hex.EncodeToString of the bytes; "" is the zero value of a
\* result that carries no digest
Sha(c) == CASE c = 0 -> "h0" [] c = 1 -> "h1" [] c = 2 -> "h2" [] OTHER -> "h3"

NoDigest == ""

(***************************************************************************)
(* The file system: for each path, whether it exists (stat = "ok"), does   *)
(* not exist ("notexist") or cannot be examined ("other"), and for an      *)
(* existing file its content, mtime and whether it can be opened and read. *)
(***************************************************************************)
NoFile == [stat |-> "notexist", content |-> 0, mtime |-> 0, readable |-> FALSE]

RegularFile(c, m, rd) == [stat |-> "ok", content |-> c, mtime |-> m, readable |-> rd]

VARIABLES
  fs,            \* [Paths -> file state]
  clock          \* current wall-clock time

envVars == <<fs, clock>>

\* os.Stat(path): "ok", "notexist" (os.IsNotExist) or "other"
OsStat(path) == fs[path].stat

(***************************************************************************)
(* hasher.Result / hasher.FileInfo                                         *)
(***************************************************************************)
FileInfo(path, disk, size, mtime) ==
  [Path |-> path, Disk |-> disk, Size |-> size, Mtime |-> mtime]

Result(path, disk, size, mtime, sha, err) ==
  [Path |-> path, Disk |-> disk, Size |-> size, Mtime |-> mtime,
   SHA256 |-> sha, Err |-> err]

NoResult == Result(<<>>, "", 0, 0, NoDigest, FALSE)

\* os.Open + io.CopyBuffer succeed
CanRead(path) == fs[path].stat = "ok" /\ fs[path].readable

\* hasher.HashFile: opens, stats and hashes; Disk is left empty
HashFile(path) ==
  IF CanRead(path)
    THEN Result(path, "", SizeOf(fs[path].content), fs[path].mtime,
                Sha(fs[path].content), FALSE)
    ELSE Result(path, "", 0, 0, NoDigest, TRUE)

\* a with-info path that never reads the file: the digest of no bytes
hashFileWithInfoNoRead(fi) ==
  IF CanRead(fi.Path)
    THEN Result(fi.Path, fi.Disk, fi.Size, fi.Mtime, Sha(0), FALSE)
    ELSE Result(fi.Path, fi.Disk, 0, 0, NoDigest, TRUE)

\* hasher.hashFileWithInfo: hashes, copying size/mtime from the descriptor
hashFileWithInfo(fi) ==
  IF CanRead(fi.Path)
    THEN Result(fi.Path, fi.Disk, fi.Size, fi.Mtime, Sha(fs[fi.Path].content), FALSE)
    ELSE Result(fi.Path, fi.Disk, 0, 0, NoDigest, TRUE)

\* the body of the worker loop of HashFiles: the result sent for fi
WorkerResultDropDisk(fi) ==
  IF fi.Size > 0 \/ fi.Mtime > 0
    THEN hashFileWithInfo(fi)
    ELSE HashFile(fi.Path)

WorkerResult(fi) ==
  IF fi.Size > 0 \/ fi.Mtime > 0
    THEN (IF hashFileWithInfo(fi).Err
            THEN Result(fi.Path, fi.Disk, 0, 0, NoDigest, TRUE)
            ELSE hashFileWithInfo(fi))
    ELSE (IF HashFile(fi.Path).Err
            THEN Result(fi.Path, fi.Disk, 0, 0, NoDigest, TRUE)
            ELSE [HashFile(fi.Path) EXCEPT !.Disk = fi.Disk])

(***************************************************************************)
(* The hashing pools.  A pool p has an input channel, an output channel    *)
(* and workers 1..workers[p].                                              *)
(***************************************************************************)
VARIABLES
  workers,       \* [pool -> worker count]
  input,         \* [pool -> queue of FileInfo]
  inputCap,      \* [pool -> capacity of the input channel]
  inputClosed,   \* [pool -> BOOLEAN]
  output,        \* [pool -> queue of Result]
  outputCap,     \* [pool -> capacity of the output channel]
  outputClosed,  \* [pool -> number of close(results) calls]
  wpc,           \* [pool -> [worker -> "recv" | "send" | "done"]]
  wres,          \* [pool -> [worker -> the Result a worker is about to send]]
  panicked,      \* a send on a closed channel or a second close happened
  hashed         \* history: the paths workers have taken from an input

poolVars == <<workers, input, inputCap, inputClosed, output, outputCap,
              outputClosed, wpc, wres, panicked, hashed>>

Pools == DOMAIN workers

\* hasher.New: a non-positive worker count becomes 1
New(n) == IF n <= 0 THEN 1 ELSE n

InitPool(ws, capIn, capOut) ==
  /\ workers = ws
  /\ input = [p \in DOMAIN ws |-> <<>>]
  /\ inputCap = capIn
  /\ inputClosed = [p \in DOMAIN ws |-> FALSE]
  /\ output = [p \in DOMAIN ws |-> <<>>]
  /\ outputCap = capOut
  /\ outputClosed = [p \in DOMAIN ws |-> 0]
  /\ wpc = [p \in DOMAIN ws |-> [w \in 1..ws[p] |-> "recv"]]
  /\ wres = [p \in DOMAIN ws |-> [w \in 1..ws[p] |-> NoResult]]
  /\ panicked = FALSE
  /\ hashed = {}

\* `for fi := range files`: a worker takes the next descriptor and hashes it
WorkerRecv(p, w) ==
  /\ wpc[p][w] = "recv"
  /\ input[p] # <<>>
  /\ input' = [input EXCEPT ![p] = Tail(@)]
  /\ wres' = [wres EXCEPT ![p][w] = WorkerResult(Head(input[p]))]
  /\ wpc' = [wpc EXCEPT ![p][w] = "send"]
  /\ hashed' = hashed \cup {Head(input[p]).Path}
  /\ UNCHANGED <<workers, inputCap, inputClosed, output, outputCap,
                 outputClosed, panicked>>

\* `results <- ...`: blocks while the channel is full, panics when closed
WorkerSend(p, w) ==
  /\ wpc[p][w] = "send"
  /\ \/ /\ outputClosed[p] = 0
        /\ Len(output[p]) < outputCap[p]
        /\ output' = [output EXCEPT ![p] = Append(@, wres[p][w])]
        /\ UNCHANGED panicked
     \/ /\ outputClosed[p] > 0
        /\ panicked' = TRUE
        /\ UNCHANGED output
  /\ wres' = [wres EXCEPT ![p][w] = NoResult]
  /\ wpc' = [wpc EXCEPT ![p][w] = "recv"]
  /\ UNCHANGED <<workers, input, inputCap, inputClosed, outputCap,
                 outputClosed, hashed>>

\* the range loop ends when the input is closed and drained: wg.Done()
WorkerExit(p, w) ==
  /\ wpc[p][w] = "recv"
  /\ input[p] = <<>>
  /\ inputClosed[p]
  /\ wpc' = [wpc EXCEPT ![p][w] = "done"]
  /\ UNCHANGED <<workers, input, inputCap, inputClosed, output, outputCap,
                 outputClosed, wres, panicked, hashed>>

\* wg.Wait() returns
WaitAny(p) == \E w \in 1..workers[p] : wpc[p][w] = "done"

Wait(p) == \A w \in 1..workers[p] : wpc[p][w] = "done"

\* HashFiles after starting the workers: wg.Wait(); close(results)
HashFilesClose(p) ==
  /\ Wait(p)
  /\ outputClosed[p] = 0
  /\ outputClosed' = [outputClosed EXCEPT ![p] = @ + 1]
  /\ UNCHANGED <<workers, input, inputCap, inputClosed, output, outputCap,
                 wpc, wres, panicked, hashed>>

HashFiles(p) ==
  \/ \E w \in 1..workers[p] : WorkerRecv(p, w)
  \/ \E w \in 1..workers[p] : WorkerSend(p, w)
  \/ \E w \in 1..workers[p] : WorkerExit(p, w)
  \/ HashFilesClose(p)

(***************************************************************************)
(* The caller of a stand-alone pool (SpecHash).                            *)
(***************************************************************************)
VARIABLES
  toSend,        \* descriptors the caller has still to send
  sent,          \* history: descriptors sent so far
  received,      \* results the caller has read from the output
  lastQuery      \* the last FindMoveCandidates call made directly: its
                 \* arguments and the rows it returned

callerVars == <<toSend, sent, received, lastQuery>>

\* no call has been made
NoQuery == [baseName |-> <<>>, size |-> 0, limit |-> 0, rows |-> <<>>]

InitCallerIdle ==
  /\ toSend = <<>>
  /\ sent = <<>>
  /\ received = <<>>
  /\ lastQuery = NoQuery

(***************************************************************************)
(* The catalog store (internal/db).  The table `files` is a set of         *)
(* records; db is its committed content and tx the content seen by the     *)
(* open transaction (the committed content plus the batch's writes).       *)
(***************************************************************************)
VARIABLES
  db,            \* committed rows of `files`
  tx,            \* rows as seen inside the open transaction
  txLog,         \* history: the rows at the start of the run, then the rows
                 \* of the transaction after each write iteration of the run
  poisoned,      \* history: a write of the open batch has failed
  scanHistory,   \* rows of `scan_history`, in id order (id = index)
  scanID         \* scanID of the running command (0: no row was recorded)

dbVars == <<db, tx, txLog, poisoned, scanHistory, scanID>>

FileRecord(path, disk, size, mtime, sha, firstSeen, lastVerified, status) ==
  [Path |-> path, Disk |-> disk, Size |-> size, Mtime |-> mtime, SHA256 |-> sha,
   FirstSeen |-> firstSeen, LastVerified |-> lastVerified, Status |-> status]

RowsAt(t, path) == {r \in t : r.Path = path}

\* the disk label of a path under one of the roots /a, /b
DiskOf(path) == path[2]

\* the rows a scenario's catalog may hold: rows written by earlier scans of
\* content c with mtime m, last verified at time lv
EarlierRow(path, c, m, lv, status) ==
  FileRecord(path, DiskOf(path), SizeOf(c), m, Sha(c), 0, lv, status)

\* an upsert whose ON CONFLICT clause also overwrites first_seen
UpsertFileTxFirstSeen(t, f) == {r \in t : r.Path # f.Path} \cup {f}

\* UpsertFileTx: INSERT ... ON CONFLICT(path) DO UPDATE SET disk, size, mtime,
\* sha256, last_verified, status (first_seen is kept)
UpsertFileTx(t, f) ==
  IF RowsAt(t, f.Path) = {}
    THEN t \cup {f}
    ELSE { IF r.Path = f.Path
             THEN [r EXCEPT !.Disk = f.Disk, !.Size = f.Size, !.Mtime = f.Mtime,
                            !.SHA256 = f.SHA256, !.LastVerified = f.LastVerified,
                            !.Status = f.Status]
             ELSE r : r \in t }

\* Times are counted in ticks; time.Now() has the clock's resolution, while
\* SQLite's CURRENT_TIMESTAMP ('YYYY-MM-DD HH:MM:SS') is the time cut to the
\* whole second
TicksPerSecond == 3

CurrentTimestamp(now) == (now \div TicksPerSecond) * TicksPerSecond

\* UpdateStatusTx: UPDATE files SET status, last_verified = CURRENT_TIMESTAMP
\* WHERE path = ?
UpdateStatusTx(t, path, status, now) ==
  { IF r.Path = path
      THEN [r EXCEPT !.Status = status, !.LastVerified = CurrentTimestamp(now)]
      ELSE r : r \in t }

\* a re-key without the DELETE of the destination's row
MovePathTxKeepTarget(t, oldPath, newPath, newDisk, newSize, newMtime, now) ==
  { IF r.Path = oldPath
      THEN [r EXCEPT !.Path = newPath, !.Disk = newDisk, !.Size = newSize,
                     !.Mtime = newMtime, !.Status = "ok",
                     !.LastVerified = CurrentTimestamp(now)]
      ELSE r : r \in t }

\* MovePathTx: DELETE the row at newPath, then re-key the row at oldPath
MovePathTx(t, oldPath, newPath, newDisk, newSize, newMtime, now) ==
  LET kept == {r \in t : r.Path # newPath}
  IN  { IF r.Path = oldPath
          THEN [r EXCEPT !.Path = newPath, !.Disk = newDisk, !.Size = newSize,
                         !.Mtime = newMtime, !.Status = "ok",
                         !.LastVerified = CurrentTimestamp(now)]
          ELSE r : r \in kept }

\* SQLite LIKE folds ASCII case
Fold(c) ==
  CASE c = "A" -> "a" [] c = "B" -> "b" [] c = "D" -> "d"
    [] c = "F" -> "f" [] c = "G" -> "g" [] OTHER -> c

\* SQLite LIKE: % matches any sequence, _ any one character
RECURSIVE LikeMatch(_, _)
LikeMatch(pat, str) ==
  IF pat = <<>> THEN str = <<>>
  ELSE IF Head(pat) = "%"
    THEN LikeMatch(Tail(pat), str) \/ (str # <<>> /\ LikeMatch(pat, Tail(str)))
  ELSE IF str = <<>> THEN FALSE
  ELSE /\ (Head(pat) = "_" \/ Fold(Head(pat)) = Fold(Head(str)))
       /\ LikeMatch(Tail(pat), Tail(str))

\* the default and the caller's candidate limit
MoveCandidateLimit == 20

\* rows matched by FindMoveCandidates: WHERE size = ? AND path LIKE '%/'+base
MoveCandidateRows(t, baseName, size) ==
  {r \in t : r.Size = size /\ LikeMatch(<<"%", "/">> \o baseName, r.Path)}

SetMin(S) == CHOOSE x \in S : \A y \in S : x <= y

\* FindMoveCandidates: the possible result lists: the matching rows ordered
\* by last_verified DESC (rows with equal last_verified in any order), cut
\* at the limit
FindMoveCandidates(t, baseName, size, limit) ==
  LET lim  == IF limit <= 0 THEN MoveCandidateLimit ELSE limit
      rows == MoveCandidateRows(t, baseName, size)
      n    == SetMin({Cardinality(rows), lim})
  IN  { s \in [1..n -> rows] :
          /\ \A i, j \in 1..n : i < j =>
               s[i] # s[j] /\ s[i].LastVerified >= s[j].LastVerified
          /\ \A r \in rows : (\A i \in 1..n : s[i] # r) =>
               \A i \in 1..n : s[i].LastVerified >= r.LastVerified }

\* LoadQuickLookupMap: path -> {size, mtime, sha256} of every committed row
LoadQuickLookupMap(t) ==
  {[Path |-> r.Path, Size |-> r.Size, Mtime |-> r.Mtime, SHA256 |-> r.SHA256] : r \in t}

\* GetAllFiles / GetFilesByDisk: rows ORDER BY path; paths are listed in
\* WalkOrder, which is their order as strings
RowsInOrder(t) ==
  LET idx == {i \in 1..Len(WalkOrder) : RowsAt(t, WalkOrder[i]) # {}}
      RECURSIVE build(_)
      build(S) == IF S = {} THEN <<>>
                  ELSE LET i == SetMin(S)
                       IN <<CHOOSE r \in t : r.Path = WalkOrder[i]>> \o build(S \ {i})
  IN  build(idx)

GetAllFiles(t) == RowsInOrder(t)

\* a query that forgets its WHERE clause
GetFilesByDiskAll(t, disk) == RowsInOrder(t)

GetFilesByDisk(t, disk) == RowsInOrder({r \in t : r.Disk = disk})

\* `ended_at` of a row that has not been completed (NULL)
NoTime == 0 - 1

\* InsertScanHistory: a new row with status 'running'; its id is its index
InsertScanHistory(h, scanType, now) ==
  Append(h, [ScanType |-> scanType, StartedAt |-> CurrentTimestamp(now),
             EndedAt |-> NoTime, FilesProcessed |-> 0, Errors |-> 0,
             Status |-> "running"])

\* CompleteScanHistory: UPDATE scan_history SET ended_at, files_processed,
\* errors, status = 'completed' WHERE id = ?
CompleteScanHistory(h, id, filesProcessed, errors, now) ==
  [i \in DOMAIN h |->
     IF i = id
       THEN [h[i] EXCEPT !.EndedAt = CurrentTimestamp(now),
                         !.FilesProcessed = filesProcessed,
                         !.Errors = errors,
                         !.Status = "completed"]
       ELSE h[i]]

\* `scanID, err := database.InsertScanHistory(kind, ...)` at the start of a
\* command on a catalog without earlier history
HistoryStarted(scanType) ==
  /\ scanHistory = InsertScanHistory(<<>>, scanType, clock)
  /\ scanID = 1

InitDbIdle ==
  /\ db = {}
  /\ tx = {}
  /\ txLog = <<>>
  /\ poisoned = FALSE
  /\ scanHistory = <<>>
  /\ scanID = 0

(***************************************************************************)
(* The scan command (cmd/main.go scanCmd): per-disk pipelines              *)
(* walker -> incremental filter -> hashing pool -> forwarder, the          *)
(* aggregate results channel and the reconcile loop.                       *)
(***************************************************************************)
VARIABLES
  roots,         \* [disk name -> root path]: the scan targets
  unopenable,    \* the disks whose root cannot be opened (os.Lstat fails)
  excludePatterns, \* --exclude: the compiled patterns of the Scanner
  scanErrors,    \* scanErrors: the disks whose Walk returned an error
  fullScan,      \* --full
  lookupMap,     \* LoadQuickLookupMap at the start of the run (unused when --full)
  walkPos,       \* [disk -> index in WalkOrder the walker visits next]
  scanned,       \* [disk -> queue between walker and filter]
  scannedCap,    \* [disk -> capacity of scanned]
  resultsCap,    \* capacity of the aggregate results channel
  scannedClosed, \* [disk -> BOOLEAN]
  fwdDone,       \* [disk -> the forwarder has called pipelineWg.Done()]
  results,       \* aggregate results channel
  resultsClosed, \* number of close(results) calls
  pc,            \* "idle" | "loop" | "done": position of the command's main goroutine
  batchCount,
  skipped,
  totalProcessed,
  totalErrors,
  run,           \* number of the current run
  prevFull,      \* history: fullScan of the previous run of the scenario
  dbStart,       \* history: committed rows at the start of the run
  emitted,       \* history: number of descriptors the walkers sent
  delivered,     \* history: results taken by the reconcile loop
  writes         \* history: number of upserts and re-keys issued in the run

scanVars == <<roots, scannedCap, resultsCap, unopenable, excludePatterns, scanErrors, fullScan, lookupMap, walkPos, scanned,
              scannedClosed, fwdDone, results, resultsClosed, pc, batchCount, skipped,
              totalProcessed, totalErrors, run, prevFull, dbStart, emitted, delivered, writes>>

\* capacity of the aggregate results channel
ResultsCap == 256

\* scanner.DiskType.DefaultWorkers
DefaultWorkers(diskType) ==
  CASE diskType = "HDD" -> 1 [] diskType = "SSD" -> 4 [] OTHER -> 2

\* make(chan ..., workers*4)
ChanCap(n) == n * 4

InitScanIdle ==
  /\ roots = <<>>
  /\ scannedCap = <<>>
  /\ resultsCap = 0
  /\ unopenable = {}
  /\ excludePatterns = {}
  /\ scanErrors = {}
  /\ fullScan = FALSE
  /\ lookupMap = {}
  /\ walkPos = <<>>
  /\ scanned = <<>>
  /\ scannedClosed = <<>>
  /\ fwdDone = <<>>
  /\ results = <<>>
  /\ resultsClosed = 0
  /\ pc = "idle"
  /\ batchCount = 0
  /\ skipped = 0
  /\ totalProcessed = 0
  /\ totalErrors = 0
  /\ run = 0
  /\ prevFull = FALSE
  /\ dbStart = {}
  /\ emitted = 0
  /\ delivered = {}
  /\ writes = 0

\* the directories of the model: every proper prefix of a path that ends
\* before a separator
Dirs ==
  UNION { {SubSeq(path, 1, k - 1) : k \in {j \in 2..Len(path) : path[j] = "/"}} :
          path \in Paths }

\* re.MatchString for the patterns of the model: a literal that may occur
\* anywhere (`text`), a literal at the end (`text$`) and a whole path
\* (`^text$`)
MatchString(re, str) ==
  CASE re.kind = "any" ->
         \E i \in 1..Len(str) :
           /\ i + Len(re.text) - 1 <= Len(str)
           /\ SubSeq(str, i, i + Len(re.text) - 1) = re.text
    [] re.kind = "end" ->
         /\ Len(re.text) <= Len(str)
         /\ SubSeq(str, Len(str) - Len(re.text) + 1, Len(str)) = re.text
    [] OTHER -> str = re.text

\* `for _, re := range s.excludePatterns { if re.MatchString(path) ...`
Excluded(path) == \E re \in excludePatterns : MatchString(re, path)

\* the directory entry of dir on the way to path
ChildToward(dir, path) ==
  LET rest == {k \in (Len(dir) + 2)..Len(path) : path[k] = "/"}
  IN  IF rest = {} THEN path ELSE SubSeq(path, 1, SetMin(rest) - 1)

RECURSIVE NotReached(_, _)

\* a walk that checks the patterns on files only and never returns SkipDir
NotReachedFileOnly(dir, path) == Excluded(path)

\* filepath.WalkDir from dir does not get to emit path: the callback returns
\* SkipDir for a directory that matches a pattern, which prunes everything
\* below it, and returns nil without sending for a file that matches
NotReached(dir, path) ==
  IF dir = path THEN Excluded(path)
  ELSE Excluded(dir) \/ NotReached(ChildToward(dir, path), path)

\* what the callback of Scanner.Walk returns for an entry: `if err != nil {
\* warning; return nil }` comes first, a directory that matches a pattern
\* gives SkipDir, every other entry gives nil
WalkFn(err, isDir, excluded) ==
  IF err # "nil" THEN "nil"
  ELSE IF isDir /\ excluded THEN "SkipDir"
  ELSE "nil"

\* `err := filepath.WalkDir(root, fn)` of Scanner.Walk: when the root cannot
\* be opened WalkDir hands the error to the callback and returns what the
\* callback returns, with SkipDir turned into nil; the entries below the
\* root get nil or SkipDir from the callback, which never stops the walk
WalkDir(p) ==
  LET r == IF p \in unopenable
             THEN WalkFn("lstat", FALSE, FALSE)
             ELSE WalkFn("nil", TRUE, Excluded(roots[p]))
  IN  IF r = "SkipDir" THEN "nil" ELSE r

\* Scanner.Walk callback: the entry is a regular, non-empty file under root
EmittableAnySize(p, i) ==
  /\ HasPrefix(WalkOrder[i], roots[p])
  /\ fs[WalkOrder[i]].stat = "ok"
  /\ p \notin unopenable
  /\ ~NotReached(roots[p], WalkOrder[i])

Emittable(p, i) ==
  /\ HasPrefix(WalkOrder[i], roots[p])
  /\ fs[WalkOrder[i]].stat = "ok"
  /\ p \notin unopenable
  /\ ~NotReached(roots[p], WalkOrder[i])
  /\ SizeOf(fs[WalkOrder[i]].content) # 0

\* entries the walker of disk p has still to send
ToWalk(p) == {i \in walkPos[p]..Len(WalkOrder) : Emittable(p, i)}

\* Scanner.Walk: `files <- hasher.FileInfo{...}` for the next file
Walk(p) ==
  /\ ~scannedClosed[p]
  /\ ToWalk(p) # {}
  /\ Len(scanned[p]) < scannedCap[p]
  /\ LET i == SetMin(ToWalk(p))
         path == WalkOrder[i]
     IN  /\ scanned' = [scanned EXCEPT ![p] =
                 Append(@, FileInfo(path, p, SizeOf(fs[path].content), fs[path].mtime))]
         /\ walkPos' = [walkPos EXCEPT ![p] = i + 1]
  /\ emitted' = emitted + 1
  /\ UNCHANGED <<roots, scannedCap, resultsCap, unopenable, excludePatterns, scanErrors, fullScan, lookupMap, scannedClosed, fwdDone, results,
                 resultsClosed, pc, batchCount, skipped, totalProcessed,
                 totalErrors, run, prevFull, dbStart, delivered, writes>>
  /\ UNCHANGED <<envVars, poolVars, dbVars>>

\* Scanner.Walk returns: `defer close(scanned)`
WalkEnd(p) ==
  /\ ~scannedClosed[p]
  /\ ToWalk(p) = {}
  /\ scannedClosed' = [scannedClosed EXCEPT ![p] = TRUE]
  /\ scanErrors' = (IF WalkDir(p) # "nil" THEN scanErrors \cup {p} ELSE scanErrors)
  /\ UNCHANGED <<roots, scannedCap, resultsCap, unopenable, excludePatterns, fullScan, lookupMap, walkPos, scanned, fwdDone, results,
                 resultsClosed, pc, batchCount, skipped, totalProcessed,
                 totalErrors, run, prevFull, dbStart, emitted,
                 delivered, writes>>
  /\ UNCHANGED <<envVars, poolVars, dbVars>>

\* the incremental check: the catalog holds the path with the same size and mtime
UnchangedSizeOnly(fi) ==
  /\ ~fullScan
  /\ \E e \in lookupMap : e.Path = fi.Path /\ e.Size = fi.Size

Unchanged(fi) ==
  /\ ~fullScan
  /\ \E e \in lookupMap : e.Path = fi.Path /\ e.Size = fi.Size /\ e.Mtime = fi.Mtime

\* `for fi := range scanned`: skip the descriptor or send it to the hasher
Filter(p) ==
  /\ scanned[p] # <<>>
  /\ LET fi == Head(scanned[p])
     IN  IF Unchanged(fi)
           THEN /\ skipped' = skipped + 1
                /\ UNCHANGED input
           ELSE /\ Len(input[p]) < inputCap[p]
                /\ input' = [input EXCEPT ![p] = Append(@, fi)]
                /\ UNCHANGED skipped
  /\ scanned' = [scanned EXCEPT ![p] = Tail(@)]
  /\ UNCHANGED <<roots, scannedCap, resultsCap, unopenable, excludePatterns, scanErrors, fullScan, lookupMap, walkPos, scannedClosed, fwdDone,
                 results, resultsClosed, pc, batchCount, totalProcessed,
                 totalErrors, run, prevFull, dbStart, emitted,
                 delivered, writes>>
  /\ UNCHANGED <<workers, inputCap, inputClosed, output, outputCap,
                 outputClosed, wpc, wres, panicked, hashed>>
  /\ UNCHANGED <<envVars, dbVars>>

\* a filter that returns without closing diskInput
FilterEndNoClose(p) ==
  /\ scanned[p] = <<>>
  /\ scannedClosed[p]
  /\ ~inputClosed[p]
  /\ UNCHANGED <<envVars, poolVars, dbVars, scanVars>>

\* the range over scanned ends: `defer close(diskInput)`
FilterEnd(p) ==
  /\ scanned[p] = <<>>
  /\ scannedClosed[p]
  /\ ~inputClosed[p]
  /\ inputClosed' = [inputClosed EXCEPT ![p] = TRUE]
  /\ UNCHANGED <<workers, input, inputCap, output, outputCap, outputClosed,
                 wpc, wres, panicked, hashed>>
  /\ UNCHANGED <<envVars, dbVars, scanVars>>

\* the forwarder: `for r := range output { results <- r }`
Forward(p) ==
  /\ output[p] # <<>>
  /\ Len(results) < resultsCap
  /\ output' = [output EXCEPT ![p] = Tail(@)]
  /\ IF resultsClosed = 0
       THEN results' = Append(results, Head(output[p])) /\ UNCHANGED panicked
       ELSE panicked' = TRUE /\ UNCHANGED results
  /\ UNCHANGED <<roots, scannedCap, resultsCap, unopenable, excludePatterns, scanErrors, fullScan, lookupMap, walkPos, scanned, scannedClosed,
                 fwdDone, resultsClosed, pc, batchCount, skipped,
                 totalProcessed, totalErrors, run, prevFull, dbStart, emitted,
                 delivered, writes>>
  /\ UNCHANGED <<workers, input, inputCap, inputClosed, outputCap,
                 outputClosed, wpc, wres, hashed>>
  /\ UNCHANGED <<envVars, dbVars>>

\* the range over output ends: `defer pipelineWg.Done()`
ForwardEnd(p) ==
  /\ ~fwdDone[p]
  /\ output[p] = <<>>
  /\ outputClosed[p] > 0
  /\ fwdDone' = [fwdDone EXCEPT ![p] = TRUE]
  /\ UNCHANGED <<roots, scannedCap, resultsCap, unopenable, excludePatterns, scanErrors, fullScan, lookupMap, walkPos, scanned, scannedClosed,
                 results, resultsClosed, pc, batchCount, skipped,
                 totalProcessed, totalErrors, run, prevFull, dbStart, emitted, delivered, writes>>
  /\ UNCHANGED <<envVars, poolVars, dbVars>>

\* pipelineWg.Wait() returns
PipelineWaitFirst == \E p \in Pools : fwdDone[p]

PipelineWait == \A p \in Pools : fwdDone[p]

\* `pipelineWg.Wait(); close(results)`
CloseResults ==
  /\ pc = "loop"
  /\ PipelineWait
  /\ resultsClosed = 0
  /\ resultsClosed' = resultsClosed + 1
  /\ UNCHANGED <<roots, scannedCap, resultsCap, unopenable, excludePatterns, scanErrors, fullScan, lookupMap, walkPos, scanned, scannedClosed,
                 fwdDone, results, pc, batchCount, skipped, totalProcessed,
                 totalErrors, run, prevFull, dbStart, emitted,
                 delivered, writes>>
  /\ UNCHANGED <<envVars, poolVars, dbVars>>

\* batch size of the reconcile loop (1000 in scanCmd), scaled to the model
batchSize == 2

\* the candidate loop: index of the first candidate whose path differs from
\* the new path and no longer exists (os.IsNotExist), 0 when there is none
FirstVanishedNoStat(cands, path) ==
  LET hit == {i \in 1..Len(cands) : cands[i].Path # path}
  IN  IF hit = {} THEN 0 ELSE SetMin(hit)

FirstVanished(cands, path) ==
  LET hit == {i \in 1..Len(cands) :
                cands[i].Path # path /\ OsStat(cands[i].Path) = "notexist"}
  IN  IF hit = {} THEN 0 ELSE SetMin(hit)

\* move detection applies: incremental mode and the path is not in lookupMap
LooksNew(result) ==
  /\ ~fullScan
  /\ \A e \in lookupMap : e.Path # result.Path

\* the catalog writes of one loop iteration for a result without error:
\* re-key on a confirmed move, else upsert ("corrupted" when the vanished
\* candidate's digest differs)
ReconcileDropStale(t, result, cands, now) ==
  LET record == FileRecord(result.Path, result.Disk, result.Size, result.Mtime,
                           result.SHA256, now, now, "ok")
      k == FirstVanished(cands, result.Path)
  IN  IF k = 0 THEN UpsertFileTx(t, record)
      ELSE IF cands[k].SHA256 = result.SHA256
        THEN MovePathTx(t, cands[k].Path, result.Path, result.Disk,
                        result.Size, result.Mtime, now)
        ELSE UpsertFileTx({r \in t : r.Path # cands[k].Path},
                          [record EXCEPT !.Status = "corrupted"])

ReconcileWrites(t, result, cands, now) ==
  LET record == FileRecord(result.Path, result.Disk, result.Size, result.Mtime,
                           result.SHA256, now, now, "ok")
      k == FirstVanished(cands, result.Path)
  IN  IF k = 0 THEN UpsertFileTx(t, record)
      ELSE IF cands[k].SHA256 = result.SHA256
        THEN MovePathTx(t, cands[k].Path, result.Path, result.Disk,
                        result.Size, result.Mtime, now)
        ELSE UpsertFileTx(t, [record EXCEPT !.Status = "corrupted"])

\* a loop that never asks for candidates
CandidateListsNone(result) == {<<>>}

\* the candidate lists the iteration may get: FindMoveCandidates reads the
\* committed rows (db.conn), not the open transaction
CandidateLists(result) ==
  IF LooksNew(result)
    THEN FindMoveCandidates(db, Base(result.Path), result.Size, MoveCandidateLimit)
    ELSE {<<>>}

\* `if result.Err != nil`: the result is counted as an error and skipped
ErrorBranchNever(result) == FALSE

ErrorBranch(result) == result.Err

\* the outcomes of the store's statements in one loop iteration: all
\* succeed, or one fails (the upsert, MovePathTx's DELETE or UPDATE, or the
\* batch's COMMIT)
StoreFaults == {"upsert", "delete", "update", "commit"}

\* the rows of the transaction after the iteration's writes when a statement
\* fails: a failed statement changes nothing and the loop goes on; after a
\* failed MovePathTx the record is still upserted
FaultedWrites(t, result, cands, now, fault) ==
  LET record == FileRecord(result.Path, result.Disk, result.Size, result.Mtime,
                           result.SHA256, now, now, "ok")
      k == FirstVanished(cands, result.Path)
      moved == k # 0 /\ cands[k].SHA256 = result.SHA256
  IN  CASE fault = "upsert" /\ ~moved -> t
        [] fault = "delete" /\ moved -> UpsertFileTx(t, record)
        [] fault = "update" /\ moved ->
             UpsertFileTx({r \in t : r.Path # result.Path}, record)
        [] OTHER -> ReconcileWrites(t, result, cands, now)

\* the committed rows after a failed COMMIT: the command returns and the
\* deferred tx.Rollback() discards the writes t of the open batch
RolledBackPartial(committed, t) == t

RolledBack(committed, t) == committed

\* the fault can occur in this iteration
FaultApplies(result, cands, fault) ==
  LET k == FirstVanished(cands, result.Path)
      moved == k # 0 /\ cands[k].SHA256 = result.SHA256
  IN  CASE fault = "none" -> TRUE
        [] fault = "upsert" -> ~moved
        [] fault \in {"delete", "update"} -> moved
        [] fault = "commit" -> batchCount + 1 >= batchSize
        [] OTHER -> FALSE

\* one iteration of `for result := range results`
ResultLoop(fault) ==
  /\ pc = "loop"
  /\ results # <<>>
  /\ LET result == Head(results)
     IN  /\ results' = Tail(results)
         /\ delivered' = delivered \cup {result}
         /\ totalProcessed' = totalProcessed + 1
         /\ IF ErrorBranch(result)
              THEN /\ fault = "none"
                   /\ totalErrors' = totalErrors + 1
                   /\ UNCHANGED <<clock, dbVars, batchCount, writes, pc>>
              ELSE \E cands \in CandidateLists(result) :
                     LET t == FaultedWrites(tx, result, cands, clock, fault)
                         failed == fault \in {"upsert", "delete", "update"}
                     IN  /\ FaultApplies(result, cands, fault)
                         /\ UNCHANGED clock
                         /\ writes' = writes + 1
                         /\ totalErrors' = (IF failed THEN totalErrors + 1
                                            ELSE totalErrors)
                         /\ txLog' = Append(txLog, t)
                         /\ IF batchCount + 1 >= batchSize
                              THEN IF fault = "commit"
                                     THEN /\ pc' = "failed"
                                          /\ db' = RolledBack(db, t)
                                          /\ tx' = db'
                                          /\ batchCount' = batchCount + 1
                                          /\ UNCHANGED poisoned
                                     ELSE /\ db' = t /\ tx' = t
                                          /\ batchCount' = 0
                                          /\ poisoned' = FALSE
                                          /\ UNCHANGED pc
                              ELSE /\ tx' = t
                                   /\ batchCount' = batchCount + 1
                                   /\ poisoned' = (poisoned \/ failed)
                                   /\ UNCHANGED <<db, pc>>
  /\ UNCHANGED <<roots, scannedCap, resultsCap, unopenable, excludePatterns, scanErrors, fullScan, lookupMap, walkPos, scanned, scannedClosed,
                 fwdDone, resultsClosed, skipped, run, prevFull, dbStart,
                 emitted>>
  /\ UNCHANGED <<scanHistory, scanID>>
  /\ UNCHANGED <<fs, poolVars>>

Reconcile == ResultLoop("none")

\* an iteration in which a statement of the store fails
ReconcileFault == \E fault \in StoreFaults : ResultLoop(fault)

\* the loop ends: commit the remaining batch; a failed COMMIT makes scanCmd
\* return the error, and the deferred Rollback discards the batch
FinalCommit(fault) ==
  /\ pc = "loop"
  /\ results = <<>>
  /\ resultsClosed > 0
  /\ IF batchCount > 0
       THEN IF fault = "commit"
              THEN /\ pc' = "failed"
                   /\ db' = RolledBack(db, tx)
                   /\ tx' = db'
                   /\ UNCHANGED poisoned
              ELSE pc' = "done" /\ db' = tx /\ poisoned' = FALSE /\ UNCHANGED tx
       ELSE /\ fault = "none"
            /\ pc' = "done" /\ tx' = db /\ UNCHANGED <<db, poisoned>>
  /\ scanHistory' =
       (IF pc' = "done" /\ scanID > 0
          THEN CompleteScanHistory(scanHistory, scanID, totalProcessed,
                                   totalErrors, clock)
          ELSE scanHistory)
  /\ UNCHANGED <<txLog, scanID>>
  /\ UNCHANGED <<roots, scannedCap, resultsCap, unopenable, excludePatterns, scanErrors, fullScan, lookupMap, walkPos, scanned, scannedClosed,
                 fwdDone, results, resultsClosed, batchCount, skipped,
                 totalProcessed, totalErrors, run, prevFull, dbStart, emitted, delivered, writes>>
  /\ UNCHANGED <<envVars, poolVars>>

ScanEnd == FinalCommit("none")

ScanEndFault == FinalCommit("commit")

\* the end of scanCmd after the final commit: `if len(scanErrors) > 0 {
\* return fmt.Errorf("scan errors: %s", ...) }; return nil`: the disks the
\* returned error names (none: the command returns nil)
ScanErrorNames == IF pc = "done" THEN scanErrors ELSE {}

MaxRuns == 2         \* scan runs of a scenario
MaxFiles == 2        \* files on disk in a scan scenario
MaxRecords == 2      \* catalog rows at the start of a scan scenario

\* the state in which scanCmd enters its result loop: lookup map loaded,
\* pipelines launched, first batch begun
StartRunCaps(full, targets, diskTypes, catalog, patterns, bad, caps, resCap) ==
  /\ roots = targets
  /\ scannedCap = caps
  /\ resultsCap = resCap
  /\ unopenable = bad
  /\ excludePatterns = patterns
  /\ scanErrors = {}
  /\ fullScan = full
  /\ lookupMap = (IF full THEN {} ELSE LoadQuickLookupMap(catalog))
  /\ walkPos = [p \in DOMAIN targets |-> 1]
  /\ scanned = [p \in DOMAIN targets |-> <<>>]
  /\ scannedClosed = [p \in DOMAIN targets |-> FALSE]
  /\ fwdDone = [p \in DOMAIN targets |-> FALSE]
  /\ results = <<>>
  /\ resultsClosed = 0
  /\ pc = "loop"
  /\ batchCount = 0
  /\ skipped = 0
  /\ totalProcessed = 0
  /\ totalErrors = 0
  /\ dbStart = catalog
  /\ emitted = 0
  /\ delivered = {}
  /\ writes = 0
  /\ InitPool([p \in DOMAIN targets |-> New(DefaultWorkers(diskTypes[p]))],
              caps, caps)

\* a run with the queues of scanCmd: workers*4 per disk, 256 for the aggregate
StartRunRoots(full, targets, diskTypes, catalog, patterns, bad) ==
  StartRunCaps(full, targets, diskTypes, catalog, patterns, bad,
               [p \in DOMAIN targets |-> ChanCap(DefaultWorkers(diskTypes[p]))],
               ResultsCap)

\* a run whose roots can all be opened
StartRunWith(full, targets, diskTypes, catalog, patterns) ==
  StartRunRoots(full, targets, diskTypes, catalog, patterns, {})

\* a run without --exclude
StartRun(full, targets, diskTypes, catalog) ==
  StartRunWith(full, targets, diskTypes, catalog, {})

(***************************************************************************)
(* The verifier (internal/verifier verifyFiles) and cmd/main.go verifyCmd. *)
(***************************************************************************)
VARIABLES
  vfiles,        \* rows to verify (GetAllFiles / GetFilesByDisk), also storedMap
  diskArg,       \* --disk ("" when absent: VerifyAll)
  quick,         \* --quick
  jsonOut,       \* --json
  feedPos,       \* index in vfiles the feeder examines next
  missingPaths,
  skippedCount,
  summary,       \* verifier.Summary
  callbacks,     \* history: the VerifyResults passed to resultCb, in order
  vpc,           \* "idle" | "collect" | "cmd" | "exit"
  exitCode       \* exit status of the verify command

verifyVars == <<vfiles, diskArg, quick, jsonOut, feedPos, missingPaths,
                skippedCount, summary, callbacks, vpc, exitCode>>

notScan == <<callerVars, verifyVars>>

VerifyPool == "verify"

VerifyResult(path, status, oldHash, newHash, err) ==
  [Path |-> path, Status |-> status, OldHash |-> oldHash, NewHash |-> newHash,
   Err |-> err]

Summary(total, ok, corrupted, missing, skippedN, errors) ==
  [TotalChecked |-> total, OK |-> ok, Corrupted |-> corrupted,
   Missing |-> missing, Skipped |-> skippedN, Errors |-> errors]

InitVerifyIdle ==
  /\ vfiles = <<>>
  /\ diskArg = ""
  /\ quick = FALSE
  /\ jsonOut = FALSE
  /\ feedPos = 1
  /\ missingPaths = <<>>
  /\ skippedCount = 0
  /\ summary = Summary(0, 0, 0, 0, 0, 0)
  /\ callbacks = <<>>
  /\ vpc = "idle"
  /\ exitCode = 0

\* verifier.New: a non-positive worker count becomes 4
NewVerifier(n) == IF n <= 0 THEN 4 ELSE n

\* what the feeder does with a row: "missing" (os.IsNotExist), "error" (any
\* other stat error: dropped), "skip" (quick mode, same mtime and size) or
\* "hash"
FeedClassStatAll(f) ==
  CASE OsStat(f.Path) = "other" -> "error"
    [] OsStat(f.Path) = "ok" /\ quick /\ fs[f.Path].mtime = f.Mtime
         /\ SizeOf(fs[f.Path].content) = f.Size -> "skip"
    [] OTHER -> "hash"

FeedClassNoQuick(f) ==
  CASE OsStat(f.Path) = "notexist" -> "missing"
    [] OsStat(f.Path) = "other" -> "error"
    [] OTHER -> "hash"

FeedClass(f) ==
  CASE OsStat(f.Path) = "notexist" -> "missing"
    [] OsStat(f.Path) = "other" -> "error"
    [] quick /\ fs[f.Path].mtime = f.Mtime
         /\ SizeOf(fs[f.Path].content) = f.Size -> "skip"
    [] OTHER -> "hash"

\* one iteration of the feeder's `for _, f := range files`
Feed ==
  /\ vpc = "collect"
  /\ feedPos <= Len(vfiles)
  /\ LET f == vfiles[feedPos]
         class == FeedClass(f)
     IN  /\ missingPaths' = (IF class = "missing" THEN Append(missingPaths, f.Path)
                             ELSE missingPaths)
         /\ skippedCount' = (IF class = "skip" THEN skippedCount + 1 ELSE skippedCount)
         /\ IF class = "hash"
              THEN /\ Len(input[VerifyPool]) < inputCap[VerifyPool]
                   /\ input' = [input EXCEPT ![VerifyPool] =
                                  Append(@, FileInfo(f.Path, f.Disk, 0, 0))]
              ELSE UNCHANGED input
  /\ feedPos' = feedPos + 1
  /\ UNCHANGED <<vfiles, diskArg, quick, jsonOut, summary, callbacks, vpc, exitCode>>
  /\ UNCHANGED <<workers, inputCap, inputClosed, output, outputCap,
                 outputClosed, wpc, wres, panicked, hashed>>
  /\ UNCHANGED <<envVars, dbVars, scanVars, callerVars>>

\* a feeder that returns without closing the input
FeedEndNoClose ==
  /\ vpc = "collect"
  /\ feedPos > Len(vfiles)
  /\ ~inputClosed[VerifyPool]
  /\ UNCHANGED <<envVars, poolVars, dbVars, scanVars, callerVars, verifyVars>>

\* the feeder returns: `defer close(input)`
FeedEnd ==
  /\ vpc = "collect"
  /\ feedPos > Len(vfiles)
  /\ ~inputClosed[VerifyPool]
  /\ inputClosed' = [inputClosed EXCEPT ![VerifyPool] = TRUE]
  /\ UNCHANGED <<workers, input, inputCap, output, outputCap, outputClosed,
                 wpc, wres, panicked, hashed>>
  /\ UNCHANGED <<envVars, dbVars, scanVars, callerVars, verifyVars>>

\* storedMap[path]
Stored(path) == CHOOSE f \in {vfiles[i] : i \in 1..Len(vfiles)} : f.Path = path

\* the classification of a hashing result against the stored row
ClassifyNoCompare(result, stored) ==
  IF result.Err
    THEN VerifyResult(result.Path, "corrupted", stored.SHA256, NoDigest, TRUE)
    ELSE VerifyResult(result.Path, "ok", stored.SHA256, result.SHA256, FALSE)

Classify(result, stored) ==
  IF result.Err
    THEN VerifyResult(result.Path, "corrupted", stored.SHA256, NoDigest, TRUE)
  ELSE IF result.SHA256 = stored.SHA256
    THEN VerifyResult(result.Path, "ok", stored.SHA256, result.SHA256, FALSE)
    ELSE VerifyResult(result.Path, "corrupted", stored.SHA256, result.SHA256, FALSE)

\* a collector that counts an unreadable file as an error only
CollectLoopErrorsOnly(fault) ==
  /\ vpc = "collect"
  /\ output[VerifyPool] # <<>>
  /\ fault \in {"none", "status"}
  /\ LET result == Head(output[VerifyPool])
         vr == Classify(result, Stored(result.Path))
         t == IF fault = "status" THEN tx
              ELSE UpdateStatusTx(tx, result.Path, vr.Status, clock)
     IN  /\ output' = [output EXCEPT ![VerifyPool] = Tail(@)]
         /\ summary' = [summary EXCEPT
              !.TotalChecked = @ + 1,
              !.Errors = @ + (IF result.Err THEN 1 ELSE 0)
                           + (IF fault = "status" THEN 1 ELSE 0),
              !.Corrupted = IF vr.Status = "corrupted" /\ ~result.Err THEN @ + 1 ELSE @,
              !.OK = IF vr.Status = "ok" THEN @ + 1 ELSE @]
         /\ tx' = t
         /\ txLog' = Append(txLog, t)
         /\ poisoned' = (poisoned \/ fault = "status")
         /\ callbacks' = Append(callbacks, vr)
  /\ UNCHANGED <<vfiles, diskArg, quick, jsonOut, feedPos, missingPaths, skippedCount,
                 vpc, exitCode>>
  /\ UNCHANGED <<workers, input, inputCap, inputClosed, outputCap,
                 outputClosed, wpc, wres, panicked, hashed>>
  /\ UNCHANGED <<envVars, db, scanHistory, scanID, scanVars, callerVars>>

\* one iteration of `for result := range output`; when UpdateStatusTx fails
\* the error is counted, the row keeps its status and the loop goes on
CollectLoop(fault) ==
  /\ vpc = "collect"
  /\ output[VerifyPool] # <<>>
  /\ fault \in {"none", "status"}
  /\ LET result == Head(output[VerifyPool])
         vr == Classify(result, Stored(result.Path))
         t == IF fault = "status" THEN tx
              ELSE UpdateStatusTx(tx, result.Path, vr.Status, clock)
     IN  /\ output' = [output EXCEPT ![VerifyPool] = Tail(@)]
         /\ summary' = [summary EXCEPT
              !.TotalChecked = @ + 1,
              !.Errors = @ + (IF result.Err THEN 1 ELSE 0)
                           + (IF fault = "status" THEN 1 ELSE 0),
              !.Corrupted = IF vr.Status = "corrupted" THEN @ + 1 ELSE @,
              !.OK = IF vr.Status = "ok" THEN @ + 1 ELSE @]
         /\ tx' = t
         /\ txLog' = Append(txLog, t)
         /\ poisoned' = (poisoned \/ fault = "status")
         /\ callbacks' = Append(callbacks, vr)
  /\ UNCHANGED <<vfiles, diskArg, quick, jsonOut, feedPos, missingPaths, skippedCount,
                 vpc, exitCode>>
  /\ UNCHANGED <<workers, input, inputCap, inputClosed, outputCap,
                 outputClosed, wpc, wres, panicked, hashed>>
  /\ UNCHANGED <<envVars, db, scanHistory, scanID, scanVars, callerVars>>

Collect == CollectLoop("none")

CollectFault == CollectLoop("status")

\* the rows after the status updates of the missing paths
RECURSIVE MarkMissing(_, _, _)
\* a collector that records the vanished paths as "moved"
MarkMissingAsMoved(t, paths, now) ==
  IF paths = <<>> THEN t
  ELSE MarkMissing(UpdateStatusTx(t, Head(paths), "moved", now), Tail(paths), now)

MarkMissing(t, paths, now) ==
  IF paths = <<>> THEN t
  ELSE MarkMissing(UpdateStatusTx(t, Head(paths), "missing", now), Tail(paths), now)

\* a collector that counts the missing paths without reporting them
MissingResultsNone(paths) == <<>>

\* the callbacks for the missing paths
MissingResults(paths) ==
  [i \in 1..Len(paths) |->
     VerifyResult(paths[i], "missing", Stored(paths[i]).SHA256, NoDigest, FALSE)]

\* the sequence without its i-th element
Without(q, i) == SubSeq(q, 1, i - 1) \o SubSeq(q, i + 1, Len(q))

\* the output is closed and drained: process the missing paths, read the
\* skipped count, commit, return the summary to verifyCmd; a failed
\* UpdateStatusTx is counted and passed over, a failed COMMIT makes
\* verifyFiles return the error and the deferred Rollback discards the batch
FinishVerify(fault) ==
  /\ vpc = "collect"
  /\ output[VerifyPool] = <<>>
  /\ outputClosed[VerifyPool] > 0
  /\ fault \in {"none", "status", "commit"}
  /\ \E i \in 1..(IF fault = "status" THEN Len(missingPaths) ELSE 1) :
       LET updated == IF fault = "status" THEN Without(missingPaths, i)
                      ELSE missingPaths
           t == MarkMissing(tx, updated, clock)
       IN  /\ txLog' = Append(txLog, t)
           /\ IF fault = "commit"
                THEN /\ vpc' = "failed"
                     /\ db' = RolledBack(db, t)
                     /\ tx' = db'
                     /\ UNCHANGED poisoned
                ELSE vpc' = "cmd" /\ db' = t /\ tx' = t /\ poisoned' = FALSE
  /\ summary' = [summary EXCEPT
       !.TotalChecked = @ + Len(missingPaths),
       !.Missing = @ + Len(missingPaths),
       !.Errors = @ + (IF fault = "status" THEN 1 ELSE 0),
       !.Skipped = skippedCount]
  /\ callbacks' = callbacks \o MissingResults(missingPaths)
  /\ UNCHANGED <<vfiles, diskArg, quick, jsonOut, feedPos, missingPaths, skippedCount,
                 exitCode>>
  /\ UNCHANGED <<scanHistory, scanID>>
  /\ UNCHANGED <<envVars, poolVars, scanVars, callerVars>>

CollectEnd == FinishVerify("none")

CollectEndFault == \E fault \in {"status", "commit"} : FinishVerify(fault)

\* verifyCmd after the verification: the process's exit status
ExitStatus(json, sum) ==
  IF json THEN 0
  ELSE IF sum.Corrupted > 0 \/ sum.Missing > 0 THEN 2 ELSE 0

VerifyExit ==
  /\ vpc = "cmd"
  /\ scanHistory' =
       (IF scanID > 0
          THEN CompleteScanHistory(scanHistory, scanID, summary.TotalChecked,
                                   summary.Errors, clock)
          ELSE scanHistory)
  /\ exitCode' = ExitStatus(jsonOut, summary)
  /\ vpc' = "exit"
  /\ UNCHANGED <<vfiles, diskArg, quick, jsonOut, feedPos, missingPaths, skippedCount,
                 summary, callbacks>>
  /\ UNCHANGED <<db, tx, txLog, poisoned, scanID>>
  /\ UNCHANGED <<envVars, poolVars, scanVars, callerVars>>

\* verifyCmd returns the error of the verification: main exits with status 1
VerifyExitError ==
  /\ vpc = "failed"
  /\ exitCode' = 1
  /\ vpc' = "exit"
  /\ UNCHANGED <<vfiles, diskArg, quick, jsonOut, feedPos, missingPaths, skippedCount,
                 summary, callbacks>>
  /\ UNCHANGED <<envVars, poolVars, dbVars, scanVars, callerVars>>

\* a file that cannot be examined (stat fails with an error other than
\* not-exist)
Inaccessible == [stat |-> "other", content |-> 0, mtime |-> 0, readable |-> FALSE]

\* the files a verify scenario may hold at the path of a catalog row
VerifyFsChoices ==
  {NoFile, Inaccessible, RegularFile(1, 1, TRUE), RegularFile(2, 1, TRUE),
   RegularFile(1, 1, FALSE), RegularFile(1, 0, TRUE)}

VerifyRows ==
  { EarlierRow(PA, 1, 1, 0, "ok"), EarlierRow(PB, 1, 1, 1, "ok"),
    EarlierRow(PC, 1, 1, 1, "missing"), EarlierRow(PG, 1, 1, 0, "corrupted") }

VerifyCatalogs == {c \in SUBSET VerifyRows : Cardinality(c) <= MaxRecords}

VerifyFileSystems(catalog) ==
  { f \in [Paths -> VerifyFsChoices] :
      \A path \in Paths : RowsAt(catalog, path) = {} => f[path] = NoFile }

\* disks given to --disk ("" verifies all rows)
DiskArgs == {"", "b"}

InitVerify ==
  /\ db \in VerifyCatalogs
  /\ tx = db
  /\ txLog = <<db>>
  /\ poisoned = FALSE
  /\ fs \in VerifyFileSystems(db)
  /\ clock = TicksPerSecond
  /\ HistoryStarted("verify")
  /\ quick \in BOOLEAN
  /\ jsonOut \in BOOLEAN
  /\ diskArg \in DiskArgs
  /\ vfiles = (IF diskArg = "" THEN GetAllFiles(db)
               ELSE GetFilesByDisk(db, diskArg))
  /\ feedPos = 1
  /\ missingPaths = <<>>
  /\ skippedCount = 0
  /\ summary = Summary(0, 0, 0, 0, 0, 0)
  /\ callbacks = <<>>
  /\ vpc = "collect"
  /\ exitCode = 0
  /\ \E n \in 1..MaxWorkers :
       InitPool([p \in {VerifyPool} |-> NewVerifier(n)],
                [p \in {VerifyPool} |-> NewVerifier(n) * 2],
                [p \in {VerifyPool} |-> NewVerifier(n) * 2])
  /\ InitCallerIdle
  /\ InitScanIdle

NextVerify ==
  \/ Feed
  \/ FeedEnd
  \/ \E w \in 1..workers[VerifyPool] :
       WorkerRecv(VerifyPool, w) /\ UNCHANGED <<envVars, dbVars, scanVars, notScan>>
  \/ \E w \in 1..workers[VerifyPool] :
       WorkerSend(VerifyPool, w) /\ UNCHANGED <<envVars, dbVars, scanVars, notScan>>
  \/ \E w \in 1..workers[VerifyPool] :
       WorkerExit(VerifyPool, w) /\ UNCHANGED <<envVars, dbVars, scanVars, notScan>>
  \/ HashFilesClose(VerifyPool) /\ UNCHANGED <<envVars, dbVars, scanVars, notScan>>
  \/ Collect
  \/ CollectEnd
  \/ VerifyExit

\* scanCmd is run again on the same targets: the state in which it enters
\* its result loop
ScanAgain ==
  /\ pc = "done"
  /\ run < MaxRuns
  /\ run' = run + 1
  /\ prevFull' = fullScan
  /\ fullScan' \in BOOLEAN
  /\ lookupMap' = (IF fullScan' THEN {} ELSE LoadQuickLookupMap(db))
  /\ walkPos' = [p \in Pools |-> 1]
  /\ scanned' = [p \in Pools |-> <<>>]
  /\ scannedClosed' = [p \in Pools |-> FALSE]
  /\ fwdDone' = [p \in Pools |-> FALSE]
  /\ results' = <<>>
  /\ resultsClosed' = 0
  /\ pc' = "loop"
  /\ batchCount' = 0
  /\ skipped' = 0
  /\ totalProcessed' = 0
  /\ totalErrors' = 0
  /\ dbStart' = db
  /\ emitted' = 0
  /\ delivered' = {}
  /\ writes' = 0
  /\ input' = [p \in Pools |-> <<>>]
  /\ inputClosed' = [p \in Pools |-> FALSE]
  /\ output' = [p \in Pools |-> <<>>]
  /\ outputClosed' = [p \in Pools |-> 0]
  /\ wpc' = [p \in Pools |-> [w \in 1..workers[p] |-> "recv"]]
  /\ wres' = [p \in Pools |-> [w \in 1..workers[p] |-> NoResult]]
  /\ hashed' = {}
  /\ clock' = clock + 1
  /\ txLog' = <<db>>
  /\ scanErrors' = {}
  /\ UNCHANGED <<roots, scannedCap, resultsCap, unopenable, excludePatterns, workers, inputCap, outputCap, panicked>>
  /\ scanHistory' = InsertScanHistory(scanHistory, "scan", clock')
  /\ scanID' = Len(scanHistory')
  /\ UNCHANGED <<fs, db, tx, poisoned>>

\* the scan targets: two disks, one rotational (1 worker) and one of unknown
\* type (2 workers)
Targets == [p \in {"a", "b"} |-> <<"/", p>>]

DiskTypes == [p \in {"a", "b"} |-> IF p = "a" THEN "HDD" ELSE "unknown"]

\* the files a scenario may hold at each path
FsChoices(path) ==
  CASE path = PA -> {NoFile, RegularFile(1, 1, TRUE)}
    [] path = PB -> {NoFile, RegularFile(1, 1, TRUE), RegularFile(2, 1, TRUE),
                     RegularFile(1, 1, FALSE)}
    [] path = PC -> {NoFile, RegularFile(1, 1, TRUE)}
    [] OTHER -> {NoFile, RegularFile(0, 1, TRUE)}

FileStates == UNION {FsChoices(path) : path \in Paths}

ScanFileSystems ==
  { f \in [Paths -> FileStates] :
      /\ \A path \in Paths : f[path] \in FsChoices(path)
      /\ Cardinality({path \in Paths : f[path].stat = "ok"}) <= MaxFiles }

InitRows ==
  { EarlierRow(PA, 1, 1, 0, "ok"),
    EarlierRow(PB, 1, 1, 1, "ok"), EarlierRow(PB, 1, 0, 1, "ok"),
    EarlierRow(PC, 2, 1, 1, "missing"),
    EarlierRow(PG, 1, 1, 0, "ok") }

Catalogs ==
  { c \in SUBSET InitRows :
      /\ Cardinality(c) <= MaxRecords
      /\ \A r1, r2 \in c : r1.Path = r2.Path => r1 = r2 }

InitScan ==
  /\ fs \in ScanFileSystems
  /\ clock = TicksPerSecond
  /\ db \in Catalogs
  /\ tx = db
  /\ txLog = <<db>>
  /\ poisoned = FALSE
  /\ HistoryStarted("scan")
  /\ \E full \in BOOLEAN : StartRun(full, Targets, DiskTypes, db)
  /\ run = 1
  /\ prevFull = FALSE
  /\ InitCallerIdle
  /\ InitVerifyIdle

NextScan ==
  \/ \E p \in Pools : Walk(p) /\ UNCHANGED notScan
  \/ \E p \in Pools : WalkEnd(p) /\ UNCHANGED notScan
  \/ \E p \in Pools : Filter(p) /\ UNCHANGED notScan
  \/ \E p \in Pools : FilterEnd(p) /\ UNCHANGED notScan
  \/ \E p \in Pools : \E w \in 1..workers[p] :
       WorkerRecv(p, w) /\ UNCHANGED <<envVars, dbVars, scanVars, notScan>>
  \/ \E p \in Pools : \E w \in 1..workers[p] :
       WorkerSend(p, w) /\ UNCHANGED <<envVars, dbVars, scanVars, notScan>>
  \/ \E p \in Pools : \E w \in 1..workers[p] :
       WorkerExit(p, w) /\ UNCHANGED <<envVars, dbVars, scanVars, notScan>>
  \/ \E p \in Pools :
       HashFilesClose(p) /\ UNCHANGED <<envVars, dbVars, scanVars, notScan>>
  \/ \E p \in Pools : Forward(p) /\ UNCHANGED notScan
  \/ \E p \in Pools : ForwardEnd(p) /\ UNCHANGED notScan
  \/ CloseResults /\ UNCHANGED notScan
  \/ Reconcile /\ UNCHANGED notScan
  \/ ScanEnd /\ UNCHANGED notScan
  \/ ScanAgain /\ UNCHANGED notScan

(***************************************************************************)
(* SpecHash: one pool driven as in hasher_test.go: a caller sends a finite *)
(* sequence of descriptors, closes the input and ranges over the output.   *)
(***************************************************************************)
HashPool == "pool"

\* capacity of both channels (hasher_test.go TestHashFilesWithError)
HashCap == 1

\* the file system of SpecHash: a readable file, an unreadable one, a
\* missing one
HashFs ==
  [p \in Paths |->
     CASE p = PA -> RegularFile(1, 1, TRUE)
       [] p = PB -> RegularFile(2, 1, FALSE)
       [] p = PG -> RegularFile(3, 0, TRUE)
       [] OTHER -> NoFile]

\* descriptors with and without pre-existing stat info
HashDescriptors ==
  { FileInfo(PA, "a", 1, 1), FileInfo(PA, "b", 0, 0),
    FileInfo(PB, "b", 1, 1), FileInfo(PC, "b", 0, 0) }

SeqsUpTo(S, n) == UNION {[1..k -> S] : k \in 0..n}

\* `input <- fi`
CallerSend ==
  /\ toSend # <<>>
  /\ ~inputClosed[HashPool]
  /\ Len(input[HashPool]) < inputCap[HashPool]
  /\ input' = [input EXCEPT ![HashPool] = Append(@, Head(toSend))]
  /\ sent' = Append(sent, Head(toSend))
  /\ toSend' = Tail(toSend)
  /\ UNCHANGED <<workers, inputCap, inputClosed, output, outputCap,
                 outputClosed, wpc, wres, panicked, hashed, received, lastQuery>>

\* `close(input)`
CallerClose ==
  /\ toSend = <<>>
  /\ ~inputClosed[HashPool]
  /\ inputClosed' = [inputClosed EXCEPT ![HashPool] = TRUE]
  /\ UNCHANGED <<workers, input, inputCap, output, outputCap, outputClosed,
                 wpc, wres, panicked, hashed, callerVars>>

\* `for r := range output`
CallerRecv ==
  /\ output[HashPool] # <<>>
  /\ received' = Append(received, Head(output[HashPool]))
  /\ output' = [output EXCEPT ![HashPool] = Tail(@)]
  /\ UNCHANGED <<workers, input, inputCap, inputClosed, outputCap,
                 outputClosed, wpc, wres, panicked, hashed, toSend, sent, lastQuery>>

\* the caller's range loop has ended
CallerDone == outputClosed[HashPool] > 0 /\ output[HashPool] = <<>>

InitHash ==
  /\ fs = HashFs
  /\ clock = 0
  /\ InitDbIdle
  /\ InitScanIdle
  /\ InitVerifyIdle
  /\ \E n \in 0..MaxWorkers :
       InitPool([p \in {HashPool} |-> New(n)],
                [p \in {HashPool} |-> HashCap], [p \in {HashPool} |-> HashCap])
  /\ toSend \in SeqsUpTo(HashDescriptors, MaxLen)
  /\ sent = <<>>
  /\ received = <<>>
  /\ lastQuery = NoQuery

otherThanHash == <<envVars, dbVars, scanVars, verifyVars>>

NextHash ==
  \/ CallerSend /\ UNCHANGED otherThanHash
  \/ CallerClose /\ UNCHANGED otherThanHash
  \/ CallerRecv /\ UNCHANGED otherThanHash
  \/ \E w \in 1..workers[HashPool] :
       WorkerRecv(HashPool, w) /\ UNCHANGED <<callerVars, otherThanHash>>
  \/ \E w \in 1..workers[HashPool] :
       WorkerSend(HashPool, w) /\ UNCHANGED <<callerVars, otherThanHash>>
  \/ \E w \in 1..workers[HashPool] :
       WorkerExit(HashPool, w) /\ UNCHANGED <<callerVars, otherThanHash>>
  \/ HashFilesClose(HashPool) /\ UNCHANGED <<callerVars, otherThanHash>>

vars == <<envVars, poolVars, callerVars, dbVars, scanVars, verifyVars>>

SpecHash == InitHash /\ [][NextHash]_vars

SpecScan == InitScan /\ [][NextScan]_vars

SpecVerify == InitVerify /\ [][NextVerify]_vars

MaxStoreFiles == 3   \* files on disk in a scan scenario of more than one batch

\* trees large enough for a run of more than one batch
StoreFileSystems ==
  { f \in [Paths -> FileStates] :
      /\ \A path \in Paths : f[path] \in FsChoices(path)
      /\ Cardinality({path \in Paths : f[path].stat = "ok"}) <= MaxStoreFiles }

InitStoreScan ==
  /\ fs \in StoreFileSystems
  /\ clock = TicksPerSecond
  /\ db \in Catalogs
  /\ tx = db
  /\ txLog = <<db>>
  /\ poisoned = FALSE
  /\ HistoryStarted("scan")
  /\ \E full \in BOOLEAN : StartRun(full, Targets, DiskTypes, db)
  /\ run = 1
  /\ prevFull = FALSE
  /\ InitCallerIdle
  /\ InitVerifyIdle

(***************************************************************************)
(* SpecRerun: a scan that may be interrupted (the process is killed: the   *)
(* committed batches stay, the open batch is lost) and is then run again   *)
(* in the same mode on the same tree.                                      *)
(***************************************************************************)
\* the process is killed inside the result loop and scanCmd is started
\* again: the open batch is lost, the pipelines start afresh; dbStart keeps
\* the rows the interrupted run started with
ScanRerun ==
  /\ pc = "loop"
  /\ run = 1
  /\ run' = run + 1
  /\ prevFull' = fullScan
  /\ lookupMap' = (IF fullScan THEN {} ELSE LoadQuickLookupMap(db))
  /\ walkPos' = [p \in Pools |-> 1]
  /\ scanned' = [p \in Pools |-> <<>>]
  /\ scannedClosed' = [p \in Pools |-> FALSE]
  /\ fwdDone' = [p \in Pools |-> FALSE]
  /\ results' = <<>>
  /\ resultsClosed' = 0
  /\ pc' = "loop"
  /\ batchCount' = 0
  /\ skipped' = 0
  /\ totalProcessed' = 0
  /\ totalErrors' = 0
  /\ emitted' = 0
  /\ delivered' = {}
  /\ writes' = 0
  /\ input' = [p \in Pools |-> <<>>]
  /\ inputClosed' = [p \in Pools |-> FALSE]
  /\ output' = [p \in Pools |-> <<>>]
  /\ outputClosed' = [p \in Pools |-> 0]
  /\ wpc' = [p \in Pools |-> [w \in 1..workers[p] |-> "recv"]]
  /\ wres' = [p \in Pools |-> [w \in 1..workers[p] |-> NoResult]]
  /\ hashed' = {}
  /\ tx' = db
  /\ txLog' = <<db>>
  /\ scanErrors' = {}
  /\ UNCHANGED <<roots, scannedCap, resultsCap, unopenable, excludePatterns, fullScan, dbStart, workers, inputCap, outputCap, panicked>>
  /\ scanHistory' = InsertScanHistory(scanHistory, "scan", clock)
  /\ scanID' = Len(scanHistory')
  /\ UNCHANGED <<fs, clock, db, poisoned>>

NextRerun ==
  \/ pc = "loop" /\ \E p \in Pools : Walk(p) /\ UNCHANGED notScan
  \/ pc = "loop" /\ \E p \in Pools : WalkEnd(p) /\ UNCHANGED notScan
  \/ pc = "loop" /\ \E p \in Pools : Filter(p) /\ UNCHANGED notScan
  \/ pc = "loop" /\ \E p \in Pools : FilterEnd(p) /\ UNCHANGED notScan
  \/ pc = "loop" /\ \E p \in Pools : \E w \in 1..workers[p] :
       WorkerRecv(p, w) /\ UNCHANGED <<envVars, dbVars, scanVars, notScan>>
  \/ pc = "loop" /\ \E p \in Pools : \E w \in 1..workers[p] :
       WorkerSend(p, w) /\ UNCHANGED <<envVars, dbVars, scanVars, notScan>>
  \/ pc = "loop" /\ \E p \in Pools : \E w \in 1..workers[p] :
       WorkerExit(p, w) /\ UNCHANGED <<envVars, dbVars, scanVars, notScan>>
  \/ pc = "loop" /\ \E p \in Pools :
       HashFilesClose(p) /\ UNCHANGED <<envVars, dbVars, scanVars, notScan>>
  \/ pc = "loop" /\ \E p \in Pools : Forward(p) /\ UNCHANGED notScan
  \/ pc = "loop" /\ \E p \in Pools : ForwardEnd(p) /\ UNCHANGED notScan
  \/ pc = "loop" /\ CloseResults /\ UNCHANGED notScan
  \/ Reconcile /\ UNCHANGED notScan
  \/ ScanEnd /\ UNCHANGED notScan
  \/ ScanRerun /\ UNCHANGED notScan

\* the scenarios of SpecStore's scans that start from a catalog of at most
\* one row
InitRerun == InitStoreScan /\ Cardinality(db) <= 1

SpecRerun == InitRerun /\ [][NextRerun]_vars

(***************************************************************************)
(* SpecStore: one scan run or one verify run in which statements of the    *)
(* store may fail.                                                         *)
(***************************************************************************)
InitStore ==
  \/ InitStoreScan
  \/ InitVerify

NextStore ==
  \/ pc = "loop" /\ \E p \in Pools : Walk(p) /\ UNCHANGED notScan
  \/ pc = "loop" /\ \E p \in Pools : WalkEnd(p) /\ UNCHANGED notScan
  \/ pc = "loop" /\ \E p \in Pools : Filter(p) /\ UNCHANGED notScan
  \/ pc = "loop" /\ \E p \in Pools : FilterEnd(p) /\ UNCHANGED notScan
  \/ \E p \in Pools : \E w \in 1..workers[p] :
       WorkerRecv(p, w) /\ UNCHANGED <<envVars, dbVars, scanVars, notScan>>
  \/ \E p \in Pools : \E w \in 1..workers[p] :
       WorkerSend(p, w) /\ UNCHANGED <<envVars, dbVars, scanVars, notScan>>
  \/ \E p \in Pools : \E w \in 1..workers[p] :
       WorkerExit(p, w) /\ UNCHANGED <<envVars, dbVars, scanVars, notScan>>
  \/ \E p \in Pools :
       HashFilesClose(p) /\ UNCHANGED <<envVars, dbVars, scanVars, notScan>>
  \/ pc = "loop" /\ \E p \in Pools : Forward(p) /\ UNCHANGED notScan
  \/ pc = "loop" /\ \E p \in Pools : ForwardEnd(p) /\ UNCHANGED notScan
  \/ pc = "loop" /\ CloseResults /\ UNCHANGED notScan
  \/ Reconcile /\ UNCHANGED notScan
  \/ ReconcileFault /\ UNCHANGED notScan
  \/ ScanEnd /\ UNCHANGED notScan
  \/ ScanEndFault /\ UNCHANGED notScan
  \/ Feed
  \/ FeedEnd
  \/ Collect
  \/ CollectFault
  \/ CollectEnd
  \/ CollectEndFault
  \/ VerifyExit
  \/ VerifyExitError

SpecStore == InitStore /\ [][NextStore]_vars

(***************************************************************************)
(* SpecOverlap: `scan /b /b/d`, two targets of which one lies inside the   *)
(* other (scanCmd takes its path arguments as they are), so the files      *)
(* under /b/d are walked by both pipelines.                                *)
(***************************************************************************)
OverlapTargets ==
  [p \in {"b", "d"} |-> IF p = "b" THEN <<"/", "b">> ELSE <<"/", "b", "/", "d">>]

\* DiskTypeUnknown for every path argument
OverlapDiskTypes == [p \in {"b", "d"} |-> "unknown"]

\* scenarios with files and rows under /b only
OverlapFileSystems == {f \in ScanFileSystems : f[PA] = NoFile /\ f[PG] = NoFile}

OverlapCatalogs == {c \in Catalogs : \A r \in c : r.Path \in {PB, PC}}

InitOverlap ==
  /\ fs \in OverlapFileSystems
  /\ clock = TicksPerSecond
  /\ db \in OverlapCatalogs
  /\ tx = db
  /\ txLog = <<db>>
  /\ poisoned = FALSE
  /\ HistoryStarted("scan")
  /\ \E full \in BOOLEAN : StartRun(full, OverlapTargets, OverlapDiskTypes, db)
  /\ run = 1
  /\ prevFull = FALSE
  /\ InitCallerIdle
  /\ InitVerifyIdle

SpecOverlap == InitOverlap /\ [][NextScan]_vars

(***************************************************************************)
(* SpecRevive: scans that start from a catalog whose rows were marked      *)
(* "missing" by an earlier verify run.                                     *)
(***************************************************************************)
ReviveRows ==
  { EarlierRow(PB, 1, 1, 1, "missing"), EarlierRow(PB, 1, 0, 1, "missing"),
    EarlierRow(PC, 1, 1, 1, "missing") }

ReviveCatalogs ==
  { c \in SUBSET ReviveRows :
      /\ c # {}
      /\ Cardinality(c) <= MaxRecords
      /\ \A r1, r2 \in c : r1.Path = r2.Path => r1 = r2 }

InitRevive ==
  /\ fs \in ScanFileSystems
  /\ clock = TicksPerSecond
  /\ db \in ReviveCatalogs
  /\ tx = db
  /\ txLog = <<db>>
  /\ poisoned = FALSE
  /\ HistoryStarted("scan")
  /\ \E full \in BOOLEAN : StartRun(full, Targets, DiskTypes, db)
  /\ run = 1
  /\ prevFull = FALSE
  /\ InitCallerIdle
  /\ InitVerifyIdle

SpecRevive == InitRevive /\ [][NextScan]_vars

(***************************************************************************)
(* SpecRoots: one scan run over two targets of which one has a root that   *)
(* cannot be opened (the path does not exist or may not be read).          *)
(***************************************************************************)
InitRoots ==
  /\ fs \in ScanFileSystems
  /\ clock = TicksPerSecond
  /\ db \in Catalogs
  /\ tx = db
  /\ txLog = <<db>>
  /\ poisoned = FALSE
  /\ HistoryStarted("scan")
  /\ \E full \in BOOLEAN : \E bad \in DOMAIN Targets :
       StartRunRoots(full, Targets, DiskTypes, db, {}, {bad})
  /\ run = 1
  /\ prevFull = FALSE
  /\ InitCallerIdle
  /\ InitVerifyIdle

SpecRoots == InitRoots /\ [][NextScan]_vars

(***************************************************************************)
(* SpecBatch: a verify run over a catalog with one row more than a batch   *)
(* of the scan holds.                                                      *)
(***************************************************************************)
BatchCatalogs == {c \in SUBSET VerifyRows : Cardinality(c) = batchSize + 1}

\* every row's file is either gone or unchanged
BatchFileSystems(catalog) ==
  { f \in VerifyFileSystems(catalog) :
      \A path \in Paths : f[path] \in {NoFile, RegularFile(1, 1, TRUE)} }

\* every row's file is gone, unchanged, or unchanged but for its mtime
TouchedFileSystems(catalog) ==
  { f \in VerifyFileSystems(catalog) :
      \A path \in Paths :
        f[path] \in {NoFile, RegularFile(1, 1, TRUE), RegularFile(1, 0, TRUE)} }

InitBatchOn(fileSystems) ==
  /\ db \in BatchCatalogs
  /\ tx = db
  /\ txLog = <<db>>
  /\ poisoned = FALSE
  /\ fs \in fileSystems[db]
  /\ clock = TicksPerSecond
  /\ HistoryStarted("verify")
  /\ quick \in BOOLEAN
  /\ jsonOut \in BOOLEAN
  /\ diskArg = ""
  /\ vfiles = GetAllFiles(db)
  /\ feedPos = 1
  /\ missingPaths = <<>>
  /\ skippedCount = 0
  /\ summary = Summary(0, 0, 0, 0, 0, 0)
  /\ callbacks = <<>>
  /\ vpc = "collect"
  /\ exitCode = 0
  /\ \E n \in 1..MaxWorkers :
       InitPool([p \in {VerifyPool} |-> NewVerifier(n)],
                [p \in {VerifyPool} |-> NewVerifier(n) * 2],
                [p \in {VerifyPool} |-> NewVerifier(n) * 2])
  /\ InitCallerIdle
  /\ InitScanIdle

InitBatch == InitBatchOn([c \in BatchCatalogs |-> BatchFileSystems(c)])

SpecBatch == InitBatch /\ [][NextVerify]_vars

(***************************************************************************)
(* SpecWalk: the walkers of `scan -e ... /a /b` alone, as in TestWalk,      *)
(* TestWalkExclude and TestWalkExcludeDirectory: each sends into its       *)
(* channel, which is large enough to take every descriptor, and returns.   *)
(***************************************************************************)
MaxPatterns == 2

\* the patterns given to --exclude: `d`, `^/b/d$`, `g$`, `/f$`, `^/b$`, `/a`
Patterns ==
  { [kind |-> "any", text |-> <<"d">>],
    [kind |-> "whole", text |-> <<"/", "b", "/", "d">>],
    [kind |-> "end", text |-> <<"g">>],
    [kind |-> "end", text |-> <<"/", "f">>],
    [kind |-> "whole", text |-> <<"/", "b">>],
    [kind |-> "any", text |-> <<"/", "a">>] }

ExcludeChoices == {S \in SUBSET Patterns : Cardinality(S) <= MaxPatterns}

\* every path holds no file, a regular file or an empty file
WalkFileSystems ==
  [Paths -> {NoFile, RegularFile(1, 1, TRUE), RegularFile(0, 1, TRUE)}]

InitWalk ==
  /\ fs \in WalkFileSystems
  /\ clock = TicksPerSecond
  /\ InitDbIdle
  /\ \E patterns \in ExcludeChoices :
       StartRunWith(FALSE, Targets, DiskTypes, {}, patterns)
  /\ run = 1
  /\ prevFull = FALSE
  /\ InitCallerIdle
  /\ InitVerifyIdle

NextWalk ==
  \/ \E p \in Pools : Walk(p) /\ UNCHANGED notScan
  \/ \E p \in Pools : WalkEnd(p) /\ UNCHANGED notScan

SpecWalk == InitWalk /\ [][NextWalk]_vars

(***************************************************************************)
(* The catalog store used directly (internal/db): a freshly opened, empty  *)
(* catalog, one open transaction, and callers that apply UpsertFileTx,     *)
(* UpdateStatusTx and MovePathTx in any order and commit at any time.      *)
(* txLog holds the rows of the transaction after each call.                *)
(***************************************************************************)
MaxOps == 4

CatalogPaths == {PA, PB}

\* the records callers upsert at time now
UpsertRecords(now) ==
  { FileRecord(path, DiskOf(path), SizeOf(c), 1, Sha(c), now, now, "ok") :
      path \in CatalogPaths, c \in {1, 2} }

CatalogStatuses == {"corrupted", "missing"}

InitCatalog ==
  /\ fs = [path \in Paths |-> NoFile]
  /\ clock = 1
  /\ db = {}
  /\ tx = {}
  /\ txLog = <<{}>>
  /\ poisoned = FALSE
  /\ scanHistory = <<>>
  /\ scanID = 0
  /\ InitPool(<<>>, <<>>, <<>>)
  /\ InitCallerIdle
  /\ InitScanIdle
  /\ InitVerifyIdle

UpsertFileTxCall(f) ==
  /\ Len(txLog) <= MaxOps
  /\ tx' = UpsertFileTx(tx, f)
  /\ txLog' = Append(txLog, tx')
  /\ clock' = clock + 1
  /\ UNCHANGED <<fs, db, poisoned, scanHistory, scanID, poolVars, scanVars, callerVars,
                 verifyVars>>

UpdateStatusTxCall(path, status) ==
  /\ Len(txLog) <= MaxOps
  /\ tx' = UpdateStatusTx(tx, path, status, clock)
  /\ txLog' = Append(txLog, tx')
  /\ clock' = clock + 1
  /\ UNCHANGED <<fs, db, poisoned, scanHistory, scanID, poolVars, scanVars, callerVars,
                 verifyVars>>

MovePathTxCall(oldPath, newPath) ==
  /\ Len(txLog) <= MaxOps
  /\ tx' = MovePathTx(tx, oldPath, newPath, DiskOf(newPath), 1, 1, clock)
  /\ txLog' = Append(txLog, tx')
  /\ clock' = clock + 1
  /\ UNCHANGED <<fs, db, poisoned, scanHistory, scanID, poolVars, scanVars, callerVars,
                 verifyVars>>

\* tx.Commit followed by BeginBatch
CommitCall ==
  /\ db # tx
  /\ db' = tx
  /\ UNCHANGED <<tx, txLog, poisoned, scanHistory, scanID>>
  /\ UNCHANGED <<envVars, poolVars, scanVars, callerVars, verifyVars>>

NextCatalog ==
  \/ \E f \in UpsertRecords(clock) : UpsertFileTxCall(f)
  \/ \E path \in CatalogPaths, status \in CatalogStatuses :
       UpdateStatusTxCall(path, status)
  \/ \E oldPath, newPath \in CatalogPaths : MovePathTxCall(oldPath, newPath)
  \/ CommitCall

SpecCatalog == InitCatalog /\ [][NextCatalog]_vars

(***************************************************************************)
(* SpecCandidates: FindMoveCandidates called directly on catalogs whose    *)
(* paths differ in the case of a letter and in the directory, with base    *)
(* names that are plain or contain a LIKE wildcard.                        *)
(***************************************************************************)
PF == <<"/", "b", "/", "F">>

MaxQueries == 2      \* FindMoveCandidates calls of a scenario

\* rows of the catalogs: /b/f, /b/F, /b/d/f and /b/g with two sizes and
\* three last_verified times
QueryRows ==
  { FileRecord(path, "b", size, 1, Sha(1), 0, lv, "ok") :
      path \in {PB, PF, PC, PG}, size \in {1, 2}, lv \in {0, TicksPerSecond} }

QueryCatalogs ==
  { c \in SUBSET QueryRows :
      /\ Cardinality(c) <= MaxRecords + 1
      /\ \A r1, r2 \in c : r1.Path = r2.Path => r1 = r2 }

\* base names asked for: `f`, `F`, `g` and `_`
BaseNames == {<<"f">>, <<"F">>, <<"g">>, <<"_">>}

\* limits given: negative, zero, one, two and the scan's 20
QueryLimits == {0 - 1, 0, 1, 2, MoveCandidateLimit}

InitCandidates ==
  /\ fs = [path \in Paths |-> NoFile]
  /\ clock = TicksPerSecond
  /\ db \in QueryCatalogs
  /\ tx = db
  /\ txLog = <<db>>
  /\ poisoned = FALSE
  /\ scanHistory = <<>>
  /\ scanID = 0
  /\ InitPool(<<>>, <<>>, <<>>)
  /\ InitCallerIdle
  /\ InitScanIdle
  /\ InitVerifyIdle

\* `cands, err := database.FindMoveCandidates(base, size, limit)`
FindMoveCandidatesCall(baseName, size, limit) ==
  /\ clock < TicksPerSecond + MaxQueries
  /\ \E rows \in FindMoveCandidates(db, baseName, size, limit) :
       lastQuery' = [baseName |-> baseName, size |-> size, limit |-> limit,
                     rows |-> rows]
  /\ clock' = clock + 1
  /\ UNCHANGED <<fs, dbVars, poolVars, scanVars, verifyVars, toSend, sent, received>>

NextCandidates ==
  \E baseName \in BaseNames, size \in {1, 2}, limit \in QueryLimits :
    FindMoveCandidatesCall(baseName, size, limit)

SpecCandidates == InitCandidates /\ [][NextCandidates]_vars

(***************************************************************************)
(* SpecPipeline: one scan run whose queues are shorter than the number of  *)
(* files a disk holds, so that walker, filter, workers and forwarder wait  *)
(* for each other, under fair scheduling.                                  *)
(***************************************************************************)
\* capacity of every queue of the run, scaled to the four files of the
\* model (workers*4 per disk and 256 for the aggregate queue in scanCmd)
QueueCap == 1

\* one file under /a, three under /b
PipelineFs == [path \in Paths |-> RegularFile(1, 1, TRUE)]

\* an empty catalog, or one that holds /b/f as it is on disk
PipelineCatalogs == {{}, {EarlierRow(PB, 1, 1, 1, "ok")}}

\* `scan /b` and `scan /a /b`
PipelineTargets == {[p \in D |-> Targets[p]] : D \in {{"b"}, {"a", "b"}}}

\* one or two workers per disk
PipelineDiskTypes(targets) == [DOMAIN targets -> {"HDD", "unknown"}]

InitPipeline ==
  /\ fs = PipelineFs
  /\ clock = TicksPerSecond
  /\ db \in PipelineCatalogs
  /\ tx = db
  /\ txLog = <<db>>
  /\ poisoned = FALSE
  /\ HistoryStarted("scan")
  /\ \E full \in BOOLEAN, targets \in PipelineTargets :
       \E diskTypes \in PipelineDiskTypes(targets) :
         StartRunCaps(full, targets, diskTypes, db, {}, {},
                      [p \in DOMAIN targets |-> QueueCap], QueueCap)
  /\ run = 1
  /\ prevFull = FALSE
  /\ InitCallerIdle
  /\ InitVerifyIdle

\* the tasks of a disk's pipeline
Walker(p) == p \in Pools /\ (Walk(p) \/ WalkEnd(p)) /\ UNCHANGED notScan

FilterTask(p) == p \in Pools /\ (Filter(p) \/ FilterEnd(p)) /\ UNCHANGED notScan

Worker(p, w) ==
  /\ p \in Pools
  /\ w \in 1..workers[p]
  /\ WorkerRecv(p, w) \/ WorkerSend(p, w) \/ WorkerExit(p, w)
  /\ UNCHANGED <<envVars, dbVars, scanVars, notScan>>

HashFilesTask(p) ==
  p \in Pools /\ HashFilesClose(p) /\ UNCHANGED <<envVars, dbVars, scanVars, notScan>>

Forwarder(p) == p \in Pools /\ (Forward(p) \/ ForwardEnd(p)) /\ UNCHANGED notScan

\* the goroutine that waits for the forwarders and closes results
Closer == CloseResults /\ UNCHANGED notScan

\* scanCmd's own goroutine: the reconcile loop and the final commit
ScanMain == (Reconcile \/ ScanEnd) /\ UNCHANGED notScan

NextPipeline ==
  \/ \E p \in Pools : Walker(p)
  \/ \E p \in Pools : FilterTask(p)
  \/ \E p \in Pools : \E w \in 1..workers[p] : Worker(p, w)
  \/ \E p \in Pools : HashFilesTask(p)
  \/ \E p \in Pools : Forwarder(p)
  \/ Closer
  \/ ScanMain

\* the Go scheduler runs a goroutine whenever one is runnable: the run does
\* not stop while a task can take a step.  Fairness towards each single
\* task implies this condition, so what holds under it holds under any
\* fair scheduling of the tasks.
FairPipeline == WF_vars(NextPipeline)

SpecPipeline == InitPipeline /\ [][NextPipeline]_vars /\ FairPipeline

(***************************************************************************)
(* SpecBatchFair: verify runs over three rows with queues of two or four,  *)
(* under fair scheduling.                                                  *)
(***************************************************************************)
\* the run does not stop while the feeder, a worker, HashFiles or the
\* collector can take a step
FairVerify == WF_vars(NextVerify)

InitBatchFair == InitBatchOn([c \in BatchCatalogs |-> TouchedFileSystems(c)])

SpecBatchFair == InitBatchFair /\ [][NextVerify]_vars /\ FairVerify

(***************************************************************************)
(* Claims about the hashing pool (SpecHash).                               *)
(***************************************************************************)
DiskLabels == {"a", "b", ""}

\* number of elements of a sequence of descriptors or results that carry
\* the given path and source label
CountIn(s, path, disk) ==
  Cardinality({i \in 1..Len(s) : s[i].Path = path /\ s[i].Disk = disk})

\* number of workers of pool p holding a result for the given path and label
CountHeld(p, path, disk) ==
  Cardinality({w \in 1..workers[p] :
                 /\ wpc[p][w] = "send"
                 /\ wres[p][w].Path = path
                 /\ wres[p][w].Disk = disk})

\* C7: HashFiles emits exactly one result per descriptor sent, carrying the
\* descriptor's path and source label, and nothing else: at every moment the
\* descriptors sent so far are those still queued, plus the results held by
\* workers, queued on the output or received; every result is either a
\* digest without error or an error without digest; and once the output is
\* closed and drained every descriptor of the sequence has its result (also
\* when other descriptors of the sequence could not be read).
C7_ExactlyOnce ==
  /\ \A path \in Paths, disk \in DiskLabels :
       CountIn(sent, path, disk) =
         CountIn(input[HashPool], path, disk) + CountHeld(HashPool, path, disk)
         + CountIn(output[HashPool], path, disk) + CountIn(received, path, disk)
  /\ \A i \in 1..Len(received) :
       received[i].Err <=> (received[i].SHA256 = NoDigest)
  /\ CallerDone =>
       /\ toSend = <<>>
       /\ Len(received) = Len(sent)
       /\ \A path \in Paths, disk \in DiskLabels :
            CountIn(received, path, disk) = CountIn(sent, path, disk)

\* C7 witness: a run of two workers has ended with at least two results,
\* one of them an error and one a digest
C7_Witness ==
  /\ CallerDone
  /\ workers[HashPool] = 2
  /\ Len(received) >= 2
  /\ \E i, j \in 1..Len(received) : received[i].Err /\ ~received[j].Err

\* C8: the output of the pool is closed at most once, only after the input
\* is closed and drained and every worker has exited, and no worker sends
\* on it after the close.
C8_Barrier ==
  \A p \in Pools :
    /\ outputClosed[p] <= 1
    /\ outputClosed[p] = 1 =>
         /\ inputClosed[p]
         /\ input[p] = <<>>
         /\ \A w \in 1..workers[p] : wpc[p][w] = "done"
    /\ ~panicked

\* C8 witness: the output of a two-worker pool was closed after at least
\* two descriptors went through it
C8_Witness ==
  /\ outputClosed[HashPool] = 1
  /\ workers[HashPool] = 2
  /\ Len(sent) >= 2

(***************************************************************************)
(* Claims about the verifier (SpecVerify).                                 *)
(***************************************************************************)
VerifyOver == vpc \in {"cmd", "exit"}

CallbacksFor(path) == {i \in 1..Len(callbacks) : callbacks[i].Path = path}

InScope == {vfiles[i] : i \in 1..Len(vfiles)}

C4_Missing ==
  \A f \in InScope :
    OsStat(f.Path) = "notexist" =>
      /\ f.Path \notin hashed
      /\ \A p \in Pools : \A i \in 1..Len(input[p]) : input[p][i].Path # f.Path
      /\ \A i \in CallbacksFor(f.Path) : callbacks[i].Status = "missing"
      /\ VerifyOver =>
           /\ Cardinality(CallbacksFor(f.Path)) = 1
           /\ \A i \in CallbacksFor(f.Path) : callbacks[i].OldHash = f.SHA256
           /\ RowsAt(db, f.Path) # {}
           /\ \A r \in RowsAt(db, f.Path) : r.Status = "missing"

\* C4 witness: a finished run reported a missing file whose row was not
\* "missing" before, next to a file that was hashed
C4_Witness ==
  /\ vpc = "exit"
  /\ hashed # {}
  /\ \E f \in InScope :
       /\ OsStat(f.Path) = "notexist"
       /\ f.Status # "missing"
       /\ \E i \in CallbacksFor(f.Path) : callbacks[i].Status = "missing"

\* rows the feeder skips in quick mode: live size and mtime equal the row's
QuickSkipped ==
  {f \in InScope :
     /\ quick
     /\ OsStat(f.Path) = "ok"
     /\ fs[f.Path].mtime = f.Mtime
     /\ SizeOf(fs[f.Path].content) = f.Size}

StatFailed == {f \in InScope : OsStat(f.Path) = "other"}

\* C5: in quick mode a file whose live size and mtime equal its row's is not
\* hashed, gets no result and no status update (its row is the same in the
\* transaction and in the committed catalog as before the run), and once
\* the run is over it is counted in Skipped and not in TotalChecked.
C5_QuickSkip ==
  /\ \A f \in QuickSkipped :
       /\ f.Path \notin hashed
       /\ CallbacksFor(f.Path) = {}
       /\ RowsAt(tx, f.Path) = {f}
       /\ RowsAt(db, f.Path) = {f}
  /\ VerifyOver =>
       /\ summary.Skipped = Cardinality(QuickSkipped)
       /\ summary.TotalChecked =
            Len(vfiles) - Cardinality(QuickSkipped) - Cardinality(StatFailed)
       /\ summary.TotalChecked = Len(callbacks)

\* C5 witness: a finished quick run skipped one file and checked another
C5_Witness ==
  /\ vpc = "exit"
  /\ quick
  /\ summary.Skipped >= 1
  /\ summary.TotalChecked >= 1

\* C6: a verify run that reported at least one corrupted or missing file
\* exits with status 2, and a run that reported none exits with status 0, in
\* text and in JSON mode.
C6_ExitCode ==
  vpc = "exit" =>
    exitCode =
      (IF \E i \in 1..Len(callbacks) : callbacks[i].Status \in {"corrupted", "missing"}
         THEN 2 ELSE 0)

(***************************************************************************)
(* Claims about the scan (SpecScan).                                       *)
(***************************************************************************)
\* files the walkers emit: every file of the model lies under a scanned
\* root; empty files are passed over
OnDisk == {path \in Paths : fs[path].stat = "ok" /\ SizeOf(fs[path].content) # 0}

\* A holds a row r at the start of the run, is gone from disk, and B is a
\* readable file without a row that has r's basename and size
MovedFrom(r, B) ==
  /\ r \in dbStart
  /\ r.Path # B
  /\ OsStat(r.Path) = "notexist"
  /\ CanRead(B)
  /\ RowsAt(dbStart, B) = {}
  /\ Base(B) = Base(r.Path)
  /\ SizeOf(fs[B].content) = r.Size

\* C1 as stated, taken in its most favourable case (an incremental scan, B
\* readable and new to the catalog, A's row the only one with that basename
\* and size): after the run the catalog holds exactly one row at B, with
\* status "ok" and the first-seen of A's row, and no row at A.
C1_MoveDetection ==
  (pc = "done" /\ ~fullScan) =>
    \A r \in dbStart : \A B \in Paths :
      ( /\ MovedFrom(r, B)
        /\ Sha(fs[B].content) = r.SHA256
        /\ MoveCandidateRows(dbStart, Base(B), r.Size) = {r} ) =>
          /\ Cardinality(RowsAt(db, B)) = 1
          /\ \A row \in RowsAt(db, B) :
               row.Status = "ok" /\ row.FirstSeen = r.FirstSeen
          /\ RowsAt(db, r.Path) = {}

\* the processes between two incremental runs over an unchanged tree
SecondIncremental == pc = "done" /\ run >= 2 /\ ~fullScan /\ ~prevFull

\* C2 as stated: the second of two incremental runs over an unchanged tree
\* sends nothing to the hashing pool, writes nothing, and skips every file
\* the walkers emit.
C2_Original ==
  SecondIncremental =>
    /\ hashed = {}
    /\ writes = 0
    /\ skipped = emitted

\* files without a row of their size and mtime at the start of the run
Unrecorded ==
  {path \in OnDisk :
     \A r \in RowsAt(dbStart, path) :
       r.Size # SizeOf(fs[path].content) \/ r.Mtime # fs[path].mtime}

\* C2 as amended: the second of two incremental runs over an unchanged tree
\* sends to the hashing pool exactly the files that the first run left
\* without a row of their size and mtime, which are files that cannot be
\* read or that have no row at all; it skips every other file the walkers
\* emit and leaves their rows as they were; it issues one write per file it
\* hashed successfully.  With every file recorded it hashes nothing, writes
\* nothing and skips every file.
C2_Amended ==
  SecondIncremental =>
    /\ hashed = Unrecorded
    /\ \A path \in Unrecorded : ~CanRead(path) \/ RowsAt(dbStart, path) = {}
    /\ emitted = Cardinality(OnDisk)
    /\ skipped = emitted - Cardinality(Unrecorded)
    /\ writes = Cardinality({path \in Unrecorded : CanRead(path)})
    /\ \A path \in OnDisk \ Unrecorded : RowsAt(db, path) = RowsAt(dbStart, path)

\* C2 witness: a second incremental run over two files, both written by the
\* first run, has ended having skipped both
C2_Witness ==
  /\ SecondIncremental
  /\ emitted = 2
  /\ skipped = 2
  /\ \E r \in db : r.LastVerified = TicksPerSecond

\* results that left a hashing pool: paths taken by a worker and no longer
\* held by it
LeftPool(path) ==
  /\ path \in hashed
  /\ \A p \in Pools : \A w \in 1..workers[p] :
       ~(wpc[p][w] = "send" /\ wres[p][w].Path = path)

CountPath(q, path) == Cardinality({i \in 1..Len(q) : q[i].Path = path})

\* C9: every result a per-disk pool emitted is in exactly one place: its
\* pool's output queue, the aggregate queue, or delivered to the reconcile
\* loop, and delivered once; the aggregate queue holds nothing else; it is
\* closed at most once, only when every pool's output is closed and
\* drained; no forwarder sends after the close; when the run is over every
\* hashed file's result has been delivered.
C9_FanIn ==
  /\ \A path \in Paths :
       LET inOutput == CountPath(output[DiskOf(path)], path)
           inResults == CountPath(results, path)
           atLoop == Cardinality({r \in delivered : r.Path = path})
       IN  /\ LeftPool(path) => inOutput + inResults + atLoop = 1
           /\ ~LeftPool(path) => inOutput + inResults + atLoop = 0
  /\ totalProcessed = Cardinality(delivered)
  /\ resultsClosed <= 1
  /\ resultsClosed = 1 =>
       \A p \in Pools : outputClosed[p] = 1 /\ output[p] = <<>>
  /\ ~panicked
  /\ pc = "done" => {r.Path : r \in delivered} = hashed

\* C9 witness: a run has ended in which the reconcile loop received results
\* of both disks
C9_Witness ==
  /\ pc = "done"
  /\ \E r1, r2 \in delivered : r1.Disk = "a" /\ r2.Disk = "b"

\* C10 as stated: A has a row, is gone from disk, and B is a new file with
\* A's basename and size and another digest: after the run no row is keyed
\* at A and B has a "corrupted" row with B's digest.
C10_Original ==
  (pc = "done" /\ ~fullScan) =>
    \A r \in dbStart : \A B \in Paths :
      ( /\ MovedFrom(r, B)
        /\ Sha(fs[B].content) # r.SHA256
        /\ MoveCandidateRows(dbStart, Base(B), r.Size) = {r} ) =>
          /\ RowsAt(db, r.Path) = {}
          /\ \E row \in RowsAt(db, B) :
               row.Status = "corrupted" /\ row.SHA256 = Sha(fs[B].content)

\* B is the only file without a row that has this basename and size
OnlyNewFile(B) ==
  \A path \in OnDisk :
    ( /\ RowsAt(dbStart, path) = {}
      /\ Base(path) = Base(B)
      /\ SizeOf(fs[path].content) = SizeOf(fs[B].content) ) => path = B

\* C10 as amended: at the start of an incremental run A's row is the only
\* one with its basename and size, A is gone from disk, and B is the only
\* new file with that basename and size, readable, with another digest:
\* after the run B has exactly one row, "corrupted", with B's digest, and
\* A's row is still in the catalog, unchanged.
C10_Amended ==
  (pc = "done" /\ ~fullScan) =>
    \A r \in dbStart : \A B \in Paths :
      ( /\ MovedFrom(r, B)
        /\ Sha(fs[B].content) # r.SHA256
        /\ MoveCandidateRows(dbStart, Base(B), r.Size) = {r}
        /\ OnlyNewFile(B) ) =>
          /\ RowsAt(db, r.Path) = {r}
          /\ Cardinality(RowsAt(db, B)) = 1
          /\ \A row \in RowsAt(db, B) :
               row.Status = "corrupted" /\ row.SHA256 = Sha(fs[B].content)

\* C10 witness: an incremental run has ended that flagged a new file
\* corrupted against the row of a vanished file
C10_Witness ==
  /\ pc = "done"
  /\ ~fullScan
  /\ \E r \in dbStart : \E B \in Paths :
       /\ MovedFrom(r, B)
       /\ Sha(fs[B].content) # r.SHA256
       /\ MoveCandidateRows(dbStart, Base(B), r.Size) = {r}
       /\ OnlyNewFile(B)
       /\ \E row \in RowsAt(db, B) : row.Status = "corrupted"

\* C11: a scan result that carries a hashing error is counted in
\* totalErrors and causes no catalog write: the rows at its path, in the
\* open transaction and in the committed catalog, are those the run started
\* with, and the run has issued one write per result without error.
C11_ErrorNoWrite ==
  /\ \A r \in delivered :
       r.Err => /\ RowsAt(tx, r.Path) = RowsAt(dbStart, r.Path)
                /\ RowsAt(db, r.Path) = RowsAt(dbStart, r.Path)
  /\ totalErrors = Cardinality({r \in delivered : r.Err})
  /\ writes = Cardinality({r \in delivered : ~r.Err})

\* C11 witness: a run has ended in which a file that has a row could not be
\* hashed, next to a file that was hashed and written
C11_Witness ==
  /\ pc = "done"
  /\ \E r \in delivered : r.Err /\ RowsAt(dbStart, r.Path) # {}
  /\ \E r \in delivered : ~r.Err

(***************************************************************************)
(* Claims about failing statements of the store (SpecStore).               *)
(***************************************************************************)
\* C12 as stated: when a write has failed inside the open batch, the batch
\* is rolled back and the error is returned: no step changes the committed
\* catalog while the batch holds a failed write, and the run does not end
\* as a success.
C12_BatchRollback ==
  [][poisoned => (db' = db /\ pc' # "done" /\ vpc' # "cmd")]_vars

\* the committed catalog as the batch history gives it: the rows at the end
\* of the last whole batch that was committed
LastWholeBatch ==
  CASE pc \in {"loop", "failed"} -> txLog[Len(txLog) - batchCount]
    [] pc = "done" -> txLog[Len(txLog)]
    [] vpc \in {"collect", "failed"} \/ exitCode = 1 -> txLog[1]
    [] OTHER -> txLog[Len(txLog)]

\* C13: at every moment of a scan or verify run the committed catalog is the
\* effect of a prefix of whole batches; during a scan that prefix ends at a
\* batch boundary; when a COMMIT has failed the run has returned the error,
\* the committed catalog is the one before the failed batch, the writes of
\* that batch are discarded, and a scan has processed no further result.
C13_CommitFailure ==
  /\ db = LastWholeBatch
  /\ pc = "loop" => (Len(txLog) - 1 - batchCount) % batchSize = 0
  /\ (pc = "failed" \/ vpc = "failed") => tx = db
  /\ pc = "failed" => /\ batchCount > 0
                      /\ Len(txLog) - 1 = writes
  /\ vpc = "failed" => db = txLog[1]

\* C13 witness: a scan whose second batch failed to commit after its first
\* batch was committed with a write in it
C13_Witness ==
  /\ pc = "failed"
  /\ Len(txLog) - batchCount > 1
  /\ db # dbStart
  /\ txLog[Len(txLog)] # db

\* files that are empty when walked
EmptyFiles == {path \in Paths : fs[path].stat = "ok" /\ SizeOf(fs[path].content) = 0}

\* C14: the walker never emits a descriptor for an empty file: no queue of
\* the pipeline holds one, no worker hashes one, and in a full or an
\* incremental scan the rows at its path, in the transaction and in the
\* committed catalog, are those the run started with.
C14_ZeroByte ==
  \A path \in EmptyFiles :
    /\ path \notin hashed
    /\ \A p \in Pools :
         /\ \A i \in 1..Len(scanned[p]) : scanned[p][i].Path # path
         /\ \A i \in 1..Len(input[p]) : input[p][i].Path # path
    /\ \A r \in delivered : r.Path # path
    /\ RowsAt(tx, path) = RowsAt(dbStart, path)
    /\ RowsAt(db, path) = RowsAt(dbStart, path)

\* C14 witness: a full scan of a tree with an empty file and a file that
\* was hashed and written has ended
C14_Witness ==
  /\ pc = "done"
  /\ fullScan
  /\ EmptyFiles # {}
  /\ writes >= 1

(***************************************************************************)
(* Claims about the order of the results (SpecScan).                       *)
(***************************************************************************)
\* position of a path in the walk order
WalkIndex(path) == CHOOSE i \in 1..Len(WalkOrder) : WalkOrder[i] = path

\* the results of a set, in walk order of their paths
RECURSIVE InWalkOrder(_)
InWalkOrder(S) ==
  IF S = {} THEN <<>>
  ELSE LET first == CHOOSE r \in S :
                      \A q \in S : WalkIndex(r.Path) <= WalkIndex(q.Path)
       IN  <<first>> \o InWalkOrder(S \ {first})

\* the candidate lists of an iteration of a run that loaded its lookup map
\* from the rows start, when the committed rows are c
CandidateListsAt(start, c, result) ==
  IF ~fullScan /\ RowsAt(start, result.Path) = {}
    THEN FindMoveCandidates(c, Base(result.Path), result.Size, MoveCandidateLimit)
    ELSE {<<>>}

\* the catalogs the result loop of such a run can commit when the results
\* arrive in the order of seq: t the rows of the transaction, c the
\* committed rows, n the batch count
RECURSIVE LoopOutcomes(_, _, _, _, _)
LoopOutcomes(start, t, c, n, seq) ==
  IF seq = <<>> THEN {t}
  ELSE IF ErrorBranch(Head(seq)) THEN LoopOutcomes(start, t, c, n, Tail(seq))
  ELSE UNION { LET t2 == ReconcileWrites(t, Head(seq), cands, clock)
               IN  IF n + 1 >= batchSize
                     THEN LoopOutcomes(start, t2, t2, 0, Tail(seq))
                     ELSE LoopOutcomes(start, t2, c, n + 1, Tail(seq)) :
               cands \in CandidateListsAt(start, c, Head(seq)) }

\* what the claims compare of a catalog: path, digest and status of each row
Outline(t) == {[Path |-> r.Path, SHA256 |-> r.SHA256, Status |-> r.Status] : r \in t}

\* C15 as stated: the catalog after a scan does not depend on the order in
\* which the results reach the reconcile loop nor on the batch boundaries:
\* it has the paths, digests and statuses that the loop gives when the same
\* results arrive in walk order.
C15_OrderIndependent ==
  pc = "done" =>
    Outline(db) \in {Outline(t) :
                       t \in LoopOutcomes(dbStart, dbStart, dbStart, 0, InWalkOrder(delivered))}

(***************************************************************************)
(* Claims about an interrupted scan (SpecRerun).                           *)
(***************************************************************************)
\* the results of an uninterrupted run that starts with the rows start: one
\* per file the walkers emit and the filter lets through
ScanResults(start) ==
  { WorkerResult(FileInfo(path, DiskOf(path), SizeOf(fs[path].content), fs[path].mtime)) :
      path \in {q \in OnDisk :
                  fullScan \/ \A r \in RowsAt(start, q) :
                     r.Size # SizeOf(fs[q].content) \/ r.Mtime # fs[q].mtime} }

\* the arrival orders of a set of results
Orders(S) ==
  {seq \in [1..Cardinality(S) -> S] : \A i, j \in 1..Cardinality(S) : i # j => seq[i] # seq[j]}

\* the catalogs an uninterrupted run can end with
UninterruptedOutcomes(start) ==
  UNION {LoopOutcomes(start, start, start, 0, seq) : seq \in Orders(ScanResults(start))}

\* C16 as stated: a scan interrupted between batches and run again to
\* completion on the unchanged tree ends with a catalog that has the paths,
\* digests and statuses of an uninterrupted scan from the same starting
\* catalog.
C16_Convergence ==
  (pc = "done" /\ run = 2) =>
    Outline(db) \in {Outline(t) : t \in UninterruptedOutcomes(dbStart)}

(***************************************************************************)
(* C17: the verifier calls the result callback exactly once for every file *)
(* it counts in TotalChecked, with status ok, corrupted or missing, and    *)
(* never twice for the same path within one run.                           *)
(***************************************************************************)
C17_CallbackOnce ==
  vpc \in {"collect", "cmd", "exit"} =>
    /\ summary.TotalChecked = Len(callbacks)
    /\ \A i \in 1..Len(callbacks) :
         /\ callbacks[i].Status \in {"ok", "corrupted", "missing"}
         /\ \E k \in 1..Len(vfiles) : vfiles[k].Path = callbacks[i].Path
         /\ \A j \in 1..Len(callbacks) :
              callbacks[j].Path = callbacks[i].Path => j = i
    /\ summary.TotalChecked
         = summary.OK + summary.Corrupted + summary.Missing

\* a finished run that reported a hashed file and a missing file
C17_Witness ==
  /\ vpc = "cmd"
  /\ summary.TotalChecked = 2
  /\ \E i, j \in 1..Len(callbacks) :
       /\ callbacks[i].Status = "missing"
       /\ callbacks[j].Status \in {"ok", "corrupted"}

(***************************************************************************)
(* C18: VerifyDisk(d) hashes, reports and updates only records whose       *)
(* source label is d: every record of another source is the same after the *)
(* run as before (status and last-verified included) and gets no callback. *)
(***************************************************************************)
\* the rows of the catalog when the verification started
RowsAtStart == txLog[1]

\* the paths of the rows labelled with the disk given to VerifyDisk
PathsOnDisk == {r.Path : r \in {x \in RowsAtStart : x.Disk = diskArg}}

C18_OtherDisksUntouched ==
  (vpc \in {"collect", "cmd", "exit"} /\ diskArg # "") =>
    /\ \A r \in RowsAtStart : r.Disk # diskArg => (r \in tx /\ r \in db)
    /\ \A i \in 1..Len(callbacks) : callbacks[i].Path \in PathsOnDisk
    /\ hashed \subseteq PathsOnDisk
    /\ \A i \in 1..Len(missingPaths) : missingPaths[i] \in PathsOnDisk

\* VerifyDisk("b") has finished and reported a file, while a row of disk a
\* whose file has vanished is in the catalog
C18_Witness ==
  /\ vpc = "cmd"
  /\ diskArg = "b"
  /\ callbacks # <<>>
  /\ \E r \in RowsAtStart :
       r.Disk = "a" /\ r.Status = "ok" /\ OsStat(r.Path) = "notexist"

(***************************************************************************)
(* C19: path uniqueness.  After any sequence of upserts, status updates    *)
(* and re-keys (a re-key onto a path that already has a record included)   *)
(* the catalog never holds two records with the same path, and upserting a *)
(* path that already has a record updates that record instead of adding    *)
(* one.                                                                    *)
(***************************************************************************)
UniquePaths(t) == \A r1, r2 \in t : r1.Path = r2.Path => r1 = r2

C19_PathUnique ==
  /\ UniquePaths(tx)
  /\ UniquePaths(db)
  /\ \A f \in UpsertRecords(clock) :
       RowsAt(tx, f.Path) # {} =>
         /\ Cardinality(UpsertFileTx(tx, f)) = Cardinality(tx)
         /\ \E r \in UpsertFileTx(tx, f) : r.Path = f.Path /\ r.SHA256 = f.SHA256

\* a record has been re-keyed onto a path that held another record: the
\* row now at that path carries the first-seen of the re-keyed record
C19_Witness ==
  \E i \in 1..(Len(txLog) - 1) :
    \E r, q \in txLog[i] :
      /\ r.Path # q.Path
      /\ r.FirstSeen # q.FirstSeen
      /\ RowsAt(txLog[i + 1], r.Path) = {}
      /\ \E m \in txLog[i + 1] : m.Path = q.Path /\ m.FirstSeen = r.FirstSeen
      /\ Cardinality(txLog[i + 1]) = 1

(***************************************************************************)
(* C20: first-seen is immutable.  Once a record is created, no later       *)
(* upsert of its path, status update, or re-key of the record to a new     *)
(* path changes its first-seen value.                                      *)
(***************************************************************************)
FirstSeenAt(t, path) == {r.FirstSeen : r \in RowsAt(t, path)}

\* every record of t is in t2 at its path with the first-seen it had
KeptInPlace(t, t2) == \A r \in t : FirstSeenAt(t2, r.Path) = {r.FirstSeen}

\* the record re-keyed from oldPath is at newPath with the first-seen it had,
\* and every other record that the re-key did not replace is in place
KeptByMove(t, t2, oldPath, newPath) ==
  \A r \in t :
    r.Path # newPath =>
      FirstSeenAt(t2, IF r.Path = oldPath THEN newPath ELSE r.Path)
        = {r.FirstSeen}

C20_FirstSeenImmutable ==
  /\ \A f \in UpsertRecords(clock) : KeptInPlace(tx, UpsertFileTx(tx, f))
  /\ \A path \in CatalogPaths, status \in CatalogStatuses :
       KeptInPlace(tx, UpdateStatusTx(tx, path, status, clock))
  /\ \A oldPath, newPath \in CatalogPaths :
       KeptByMove(tx, MovePathTx(tx, oldPath, newPath, DiskOf(newPath), 1, 1, clock),
                  oldPath, newPath)
  /\ \A i \in 1..(Len(txLog) - 1) :
       \/ KeptInPlace(txLog[i], txLog[i + 1])
       \/ \E oldPath, newPath \in CatalogPaths :
            KeptByMove(txLog[i], txLog[i + 1], oldPath, newPath)

\* an existing record was upserted later with another digest, had its status
\* updated, and still carries the first-seen of its creation
C20_Witness ==
  \E i, j \in 1..(Len(txLog) - 1) :
    \E r \in txLog[i], m \in txLog[i + 1], n \in txLog[j], o \in txLog[j + 1] :
      /\ i < j
      /\ m.Path = r.Path /\ m.SHA256 # r.SHA256 /\ m.FirstSeen = r.FirstSeen
      /\ m.LastVerified > m.FirstSeen
      /\ o.Path = n.Path /\ o.Path = r.Path
      /\ n.Status = "ok" /\ o.Status = "missing"
      /\ o.FirstSeen = r.FirstSeen

(***************************************************************************)
(* C21: last-verified never decreases.  For every record, each write of a  *)
(* scan or verify run (upsert, status update, re-key) leaves last-verified *)
(* greater than or equal to its previous value.                            *)
(***************************************************************************)
\* every record of t that is still at its path in t2 is verified no earlier
NotEarlier(t, t2) ==
  \A r \in t, m \in t2 : m.Path = r.Path => m.LastVerified >= r.LastVerified

\* the record re-keyed from oldPath to newPath is verified no earlier
NotEarlierByMove(t, t2, oldPath, newPath) ==
  \A r \in t, m \in t2 :
    (r.Path = oldPath /\ m.Path = newPath /\ oldPath # newPath) =>
      m.LastVerified >= r.LastVerified

C21_LastVerifiedMonotone ==
  /\ \A f \in UpsertRecords(clock) : NotEarlier(tx, UpsertFileTx(tx, f))
  /\ \A path \in CatalogPaths, status \in CatalogStatuses :
       NotEarlier(tx, UpdateStatusTx(tx, path, status, clock))
  /\ \A oldPath, newPath \in CatalogPaths :
       NotEarlierByMove(tx, MovePathTx(tx, oldPath, newPath, DiskOf(newPath),
                                       1, 1, clock),
                        oldPath, newPath)

(***************************************************************************)
(* C22: a catalog record, once created, is never deleted by a scan or      *)
(* verify run: it still exists, at its original path or, after a confirmed *)
(* move, at the new path.                                                  *)
(***************************************************************************)
\* r has been re-keyed in t: its path is gone from disk and from t, and a row
\* with its first-seen, digest, size and basename is at another path
Rekeyed(r, t) ==
  /\ OsStat(r.Path) = "notexist"
  /\ RowsAt(t, r.Path) = {}
  /\ \E m \in t :
       /\ m.Path # r.Path
       /\ Base(m.Path) = Base(r.Path)
       /\ m.FirstSeen = r.FirstSeen
       /\ m.SHA256 = r.SHA256
       /\ m.Size = r.Size

Survives(r, t) == RowsAt(t, r.Path) # {} \/ Rekeyed(r, t)

C22_NeverDeleted ==
  txLog # <<>> =>
    /\ \A r \in RowsAtStart : Survives(r, tx) /\ Survives(r, db)
    /\ Cardinality(tx) >= Cardinality(RowsAtStart)
    /\ Cardinality(db) >= Cardinality(RowsAtStart)

(***************************************************************************)
(* C23: revival.  If a record has status "missing" and its path exists     *)
(* again on disk with content whose digest equals the stored digest, a     *)
(* scan run over that path sets the record's status to "ok".               *)
(***************************************************************************)
\* r's file is back: it can be read and its digest is the stored one
BackOnDisk(r) ==
  /\ OsStat(r.Path) = "ok"
  /\ CanRead(r.Path)
  /\ Sha(fs[r.Path].content) = r.SHA256
  /\ \E p \in Pools : HasPrefix(r.Path, roots[p])

\* the incremental filter skips r's file: same size and mtime as the row
SkippedByFilter(r) ==
  /\ ~fullScan
  /\ fs[r.Path].mtime = r.Mtime
  /\ SizeOf(fs[r.Path].content) = r.Size

\* C23 as stated: every scan over the path revives the record
C23_Original ==
  pc = "done" =>
    \A r \in dbStart :
      (r.Status = "missing" /\ BackOnDisk(r)) =>
        \E m \in db : m.Path = r.Path /\ m.Status = "ok"

\* C23 as amended: a scan that hashes the file (a full scan, or an
\* incremental scan that finds the file's size or mtime different from the
\* record's) sets the record's status to "ok"; an incremental scan that finds
\* size and mtime unchanged skips the file and leaves the record "missing"
C23_Amended ==
  pc = "done" =>
    \A r \in dbStart :
      (r.Status = "missing" /\ BackOnDisk(r)) =>
        IF SkippedByFilter(r)
          THEN RowsAt(db, r.Path) = {r}
          ELSE /\ Cardinality(RowsAt(db, r.Path)) = 1
               /\ \A m \in RowsAt(db, r.Path) :
                    /\ m.Status = "ok"
                    /\ m.SHA256 = r.SHA256
                    /\ m.FirstSeen = r.FirstSeen

\* an incremental scan has ended that hashed the file of a "missing" record,
\* back on disk with another mtime, and the record is "ok"
C23_Witness ==
  /\ pc = "done"
  /\ ~fullScan
  /\ \E r \in dbStart :
       /\ r.Status = "missing"
       /\ BackOnDisk(r)
       /\ fs[r.Path].mtime # r.Mtime
       /\ \E m \in db : m.Path = r.Path /\ m.Status = "ok"

(***************************************************************************)
(* C24: Walk emits exactly one descriptor for each regular, non-empty file *)
(* under the root whose own full path matches no exclusion pattern and     *)
(* none of whose ancestor directories, from the root down, matches one,    *)
(* and emits nothing else: a matching directory prunes its whole subtree,  *)
(* a matching file is skipped without affecting its siblings.              *)
(***************************************************************************)
\* the directories from root down that contain path
AncestorDirs(path, root) ==
  {d \in Dirs : (d = root \/ HasPrefix(d, root)) /\ HasPrefix(path, d)}

\* the files Walk(root) is to emit
ToEmit(root) ==
  { path \in Paths :
      /\ HasPrefix(path, root)
      /\ fs[path].stat = "ok"
      /\ SizeOf(fs[path].content) # 0
      /\ ~Excluded(path)
      /\ \A d \in AncestorDirs(path, root) : ~Excluded(d) }

C24_WalkExclude ==
  \A p \in Pools :
    /\ \A i \in 1..Len(scanned[p]) :
         /\ scanned[p][i].Path \in ToEmit(roots[p])
         /\ scanned[p][i] = FileInfo(scanned[p][i].Path, p,
                                     SizeOf(fs[scanned[p][i].Path].content),
                                     fs[scanned[p][i].Path].mtime)
         /\ \A j \in 1..Len(scanned[p]) :
              scanned[p][j].Path = scanned[p][i].Path => j = i
    /\ scannedClosed[p] =>
         {scanned[p][i].Path : i \in 1..Len(scanned[p])} = ToEmit(roots[p])

\* the walk of /b has returned: it pruned /b/d, whose file matches no
\* pattern itself, skipped /b/g and emitted its sibling /b/f
C24_Witness ==
  /\ scannedClosed["b"]
  /\ fs[PC].stat = "ok" /\ SizeOf(fs[PC].content) # 0
  /\ ~Excluded(PC)
  /\ \E d \in AncestorDirs(PC, roots["b"]) : Excluded(d)
  /\ fs[PG].stat = "ok" /\ SizeOf(fs[PG].content) # 0
  /\ Excluded(PG)
  /\ \E i \in 1..Len(scanned["b"]) : scanned["b"][i].Path = PB
(***************************************************************************)
(* Claims about roots that cannot be opened (SpecRoots).                   *)
(***************************************************************************)
\* the files of the sources whose root can be opened that the run has to
\* hash: regular, non-empty, and not skipped by the incremental filter
DueOnOtherSources ==
  { i \in 1..Len(WalkOrder) :
      \E p \in Pools \ unopenable :
        /\ Emittable(p, i)
        /\ ~Unchanged(FileInfo(WalkOrder[i], p, SizeOf(fs[WalkOrder[i]].content),
                               fs[WalkOrder[i]].mtime)) }

\* C25: when the root of one source cannot be opened, the finished scan
\* returns an error that names that source, and every file of the other
\* sources has still gone through the reconcile loop.
C25_RootError ==
  (pc = "done" /\ run = 1 /\ unopenable # {}) =>
    /\ unopenable \subseteq ScanErrorNames
    /\ \A i \in DueOnOtherSources : \E r \in delivered : r.Path = WalkOrder[i]

(***************************************************************************)
(* Claims about the operation history (SpecStore).                         *)
(***************************************************************************)
\* the command has ended: scanCmd has returned (nil or the commit error),
\* verifyCmd has exited
RunEnded == pc \in {"done", "failed"} \/ vpc = "exit"

\* the counts the command hands to CompleteScanHistory
FinalCounts ==
  IF vpc = "exit" THEN <<summary.TotalChecked, summary.Errors>>
  ELSE <<totalProcessed, totalErrors>>

\* every row is 'running' without end time or 'completed' with one
HistoryWellFormed ==
  \A i \in DOMAIN scanHistory :
    \/ scanHistory[i].Status = "running" /\ scanHistory[i].EndedAt = NoTime
    \/ scanHistory[i].Status = "completed" /\ scanHistory[i].EndedAt # NoTime

\* the row of a run that has ended is completed and holds the run's counts
FinalizedAtEnd ==
  RunEnded =>
    /\ scanID \in DOMAIN scanHistory
    /\ scanHistory[scanID].Status = "completed"
    /\ scanHistory[scanID].EndedAt >= scanHistory[scanID].StartedAt
    /\ <<scanHistory[scanID].FilesProcessed, scanHistory[scanID].Errors>> = FinalCounts

\* a completed row stays as it is
CompletedFrozen ==
  \A i \in DOMAIN scanHistory :
    scanHistory[i].Status = "completed" =>
      i \in DOMAIN scanHistory' /\ scanHistory'[i] = scanHistory[i]

\* C26: every history row is created 'running' at the start of a scan or
\* verify run and is 'completed', with end time, item count and error count,
\* once that run has ended, also when the run ended with an error; a
\* completed row never changes again.
C26_HistoryLifecycle ==
  /\ [](HistoryWellFormed /\ FinalizedAtEnd)
  /\ [][CompletedFrozen]_vars

(***************************************************************************)
(* Claims about the digest of a result (SpecHash).                         *)
(***************************************************************************)
\* the results the caller has received that carry a digest
Digests == {received[i] : i \in {j \in 1..Len(received) : ~received[j].Err}}

OpenBatchResults ==
  CASE pc = "loop" -> batchCount
    [] vpc \in {"collect", "cmd"} -> summary.TotalChecked
    [] OTHER -> 0

\* C28: in scan and verify runs alike a transaction holds the writes of at
\* most batchSize (1,000) processed results before it is committed.
C28_BoundedBatches == OpenBatchResults <= batchSize

(***************************************************************************)
(* Claims about the write for a path the catalog holds (SpecOverlap).      *)
(***************************************************************************)
\* the step is an iteration of the result loop
LoopStep == pc = "loop" /\ results # <<>> /\ totalProcessed' = totalProcessed + 1

\* the row r after it has taken over the values of result at time now
UpdatedInPlace(r, result, now) ==
  [r EXCEPT !.Disk = result.Disk, !.Size = result.Size, !.Mtime = result.Mtime,
            !.SHA256 = result.SHA256, !.LastVerified = now, !.Status = "ok"]

\* C29: an iteration for a result without error whose path has a row leaves
\* exactly one row at that path: the old row with the result's digest, size,
\* mtime and disk, last-verified set to the time of the iteration, status
\* "ok" and first-seen as before; move detection does not run for it, and
\* no other row changes.
C29_InPlaceUpdate ==
  [][ (LoopStep /\ ~Head(results).Err /\ RowsAt(tx, Head(results).Path) # {}) =>
        LET result == Head(results)
        IN  /\ ~LooksNew(result)
            /\ Cardinality(RowsAt(tx, result.Path)) = 1
            /\ \E r \in RowsAt(tx, result.Path) :
                 /\ RowsAt(tx', result.Path) = {UpdatedInPlace(r, result, clock)}
                 /\ r.LastVerified <= clock
            /\ {r \in tx' : r.Path # result.Path} = {r \in tx : r.Path # result.Path}
    ]_vars

(***************************************************************************)
(* Claims about move detection for new paths (SpecScan).                   *)
(***************************************************************************)
\* C30: an iteration for a result without error whose path has no row
\* decides its write from the move candidates of the path (same base name
\* and size), in an incremental scan and in a full scan alike.
C30_MoveDetectionAlways ==
  [][ (LoopStep /\ ~Head(results).Err /\ RowsAt(tx, Head(results).Path) = {}) =>
        LET result == Head(results)
        IN  \E cands \in FindMoveCandidates(db, Base(result.Path), result.Size,
                                            MoveCandidateLimit) :
              tx' = ReconcileWrites(tx, result, cands, clock)
    ]_vars

(***************************************************************************)
(* Claims about the candidate loop (SpecScan).                             *)
(***************************************************************************)
\* C31: an iteration of the result loop takes a row away from its path only
\* when that path differs from the result's path, no longer exists on disk
\* and the row's digest equals the result's; a row whose path still exists
\* stays as it is, and the result's row is flagged "corrupted" only on
\* account of a committed row of the same size whose path has vanished and
\* whose digest differs.
C31_RekeyOnlyVanished ==
  [][ (LoopStep /\ ~Head(results).Err) =>
        LET result == Head(results)
        IN  /\ \A r \in tx :
                 (r.Path # result.Path /\ RowsAt(tx', r.Path) = {}) =>
                   /\ OsStat(r.Path) = "notexist"
                   /\ r.SHA256 = result.SHA256
            /\ \A r \in tx :
                 (r.Path # result.Path /\ OsStat(r.Path) # "notexist") => r \in tx'
            /\ (\E n \in RowsAt(tx', result.Path) : n.Status = "corrupted") =>
                 \E c \in db :
                   /\ c.Path # result.Path
                   /\ OsStat(c.Path) = "notexist"
                   /\ c.Size = result.Size
                   /\ c.SHA256 # result.SHA256
    ]_vars

\* a run has re-keyed the row of a vanished path to a new path while another
\* row with the same base name and size, whose file is still on disk, kept
\* its path
C31_Witness ==
  /\ run = 1
  /\ \E r \in dbStart : \E result \in delivered :
       /\ ~result.Err
       /\ r.Path # result.Path
       /\ OsStat(r.Path) = "notexist"
       /\ r.SHA256 = result.SHA256
       /\ RowsAt(tx, r.Path) = {}
       /\ \E n \in RowsAt(tx, result.Path) :
            n.FirstSeen = r.FirstSeen /\ n.FirstSeen < clock /\ n.Status = "ok"
       /\ \E o \in dbStart :
            /\ o.Path \notin {r.Path, result.Path}
            /\ Base(o.Path) = Base(r.Path) /\ o.Size = r.Size
            /\ OsStat(o.Path) = "ok"
            /\ RowsAt(tx, o.Path) # {}

\* the candidate c confirms a move to the result's path: another path, gone
\* from disk, same digest
ConfirmsMove(c, result) ==
  /\ c.Path # result.Path
  /\ OsStat(c.Path) = "notexist"
  /\ c.SHA256 = result.SHA256

\* the candidate c would be flagged as moved and changed: another path, gone
\* from disk, another digest
SuspectsCorruption(c, result) ==
  /\ c.Path # result.Path
  /\ OsStat(c.Path) = "notexist"
  /\ c.SHA256 # result.SHA256

LimitInForce == IF lastQuery.limit <= 0 THEN 20 ELSE lastQuery.limit

\* C33: the rows FindMoveCandidates returns all have the given size and a
\* path whose final component is exactly the given base name; they are
\* distinct rows of the catalog in descending last_verified order, and
\* there are at most limit of them (at most 20 for a limit of 0 or less).
C33_Candidates ==
  LET rows == lastQuery.rows
  IN  /\ \A i \in 1..Len(rows) :
           /\ rows[i] \in db
           /\ rows[i].Size = lastQuery.size
           /\ Base(rows[i].Path) = lastQuery.baseName
      /\ \A i, j \in 1..Len(rows) :
           i < j => rows[i] # rows[j] /\ rows[i].LastVerified >= rows[j].LastVerified
      /\ Len(rows) <= LimitInForce

(***************************************************************************)
(* Claims about MovePathTx (SpecCatalog).                                  *)
(***************************************************************************)
\* C36: a MovePathTx(oldPath, newPath, ...) call made when the transaction
\* holds no record at oldPath leaves the catalog as it was; a record at
\* newPath stays in place.
C36_NoSourceNoChange ==
  [][\A oldPath, newPath \in CatalogPaths :
       (MovePathTxCall(oldPath, newPath) /\ ~\E r \in tx : r.Path = oldPath)
         => tx' = tx]_vars

(***************************************************************************)
(* Claims about the statuses written (SpecStore).                          *)
(***************************************************************************)
\* the rows written by the statements of the run so far: txLog holds the
\* transaction's rows after each statement
WrittenRows ==
  UNION { txLog[i] \ txLog[i - 1] : i \in 2..Len(txLog) }

C35_EveryDigestRecorded ==
  pc = "done" =>
    \A result \in delivered :
      ~result.Err => \E r \in db : r.Path = result.Path

(***************************************************************************)
(* Claims about the verify summary (SpecVerify).                           *)
(***************************************************************************)
\* C37: in every verify summary TotalChecked = OK + Corrupted + Missing,
\* whatever mix of matching, mismatching, unreadable and missing files the
\* run meets; the equation holds after every step of the collector.
C37_TotalIsSum ==
  summary.TotalChecked = summary.OK + summary.Corrupted + summary.Missing

\* a finished run that met an unreadable file and a missing one
C37_Witness ==
  /\ vpc = "exit"
  /\ summary.Errors > 0
  /\ summary.Missing > 0
  /\ summary.TotalChecked = 2

\* C38: when verifyFiles has returned its summary, TotalChecked + Skipped is
\* the number of in-scope records, also when the existence check of a
\* record fails with an error other than not-found.
C38_EveryRecordAccounted ==
  vpc \in {"cmd", "exit"} =>
    summary.TotalChecked + summary.Skipped = Len(vfiles)

(***************************************************************************)
(* Claims about termination (SpecPipeline, SpecBatchFair).                 *)
(***************************************************************************)
\* every walker, filter, worker and forwarder has exited, the aggregate
\* queue is closed and drained, and the reconcile loop has ended
ScanFinished ==
  /\ \A p \in Pools :
       /\ scannedClosed[p]
       /\ inputClosed[p]
       /\ \A w \in 1..workers[p] : wpc[p][w] = "done"
       /\ outputClosed[p] > 0
       /\ fwdDone[p]
       /\ scanned[p] = <<>> /\ input[p] = <<>> /\ output[p] = <<>>
  /\ resultsClosed > 0
  /\ results = <<>>
  /\ pc = "done"

FeederFinished == feedPos > Len(vfiles) /\ inputClosed[VerifyPool]

\* the rows the feeder puts in a class
FeedClassCount(class) ==
  Cardinality({i \in 1..Len(vfiles) : FeedClass(vfiles[i]) = class})

\* C40: under fair scheduling a verify run over finitely many records
\* terminates, and once the collector has read the missing paths and the
\* skipped count the feeder has finished: the summary counts every path the
\* feeder found missing and every row it skipped.
C40_VerifyTerminates ==
  /\ <>[](vpc = "exit")
  /\ [](vpc \in {"cmd", "exit"} =>
         /\ FeederFinished
         /\ summary.Missing = FeedClassCount("missing")
         /\ summary.Skipped = FeedClassCount("skip"))

\* a finished run whose feeder found a missing path, skipped a row and sent
\* one to the hasher
C40_Witness ==
  /\ vpc = "exit"
  /\ summary.Missing > 0
  /\ summary.Skipped > 0
  /\ summary.OK > 0

====
